---- MODULE Spec2Model ----
(***************************************************************************)
(* The request handlers of routers/chat.py of the Sui blockchain AI agent: *)
(* /chat (intent dispatch), /execute (server-signed or client-signing),    *)
(* /contacts/save and /contacts/list (the encrypted contact vault) and     *)
(* /health.  A handler runs from one awaited external call to the next;    *)
(* each such run is one action.  The services the handlers call            *)
(* (openai_service, sui_service, walrus_service, seal_service,            *)
(* WalletService) and models.schemas are outside the two source files and  *)
(* are modelled from their contracts.                                      *)
(***************************************************************************)
EXTENDS Integers, Sequences, FiniteSets, TLC

\* ------------------------------------------------------------------------
\* Optional values (Python None / a missing dictionary key) and truthiness
\* ------------------------------------------------------------------------
None == <<>>
Some(v) == <<v>>
IsNone(o) == o = <<>>
\* dict.get(key, default)
Get(o, default) == IF o = <<>> THEN default ELSE o[1]
\* `not x` for an optional string: None and the empty string are falsy
Falsy(o) == o = <<>> \/ o[1] = ""
\* the same for a string held as a sequence of characters
FalsyChars(o) == o = <<>> \/ o[1] = <<>>

\* ------------------------------------------------------------------------
\* Amount conversion: str(int(float(amount_str) * (10 ** decimals)))
\* Strings are sequences of one-character strings.
\* ------------------------------------------------------------------------
DigitChars == <<"0", "1", "2", "3", "4", "5", "6", "7", "8", "9">>
IsDigit(c) == \E i \in 1..10 : DigitChars[i] = c
DigitVal(c) == (CHOOSE i \in 1..10 : DigitChars[i] = c) - 1

RECURSIVE Pow(_, _)
Pow(b, n) == IF n = 0 THEN 1 ELSE b * Pow(b, n - 1)

RECURSIVE DigitsValue(_)
DigitsValue(s) ==
    IF s = <<>> THEN 0
    ELSE 10 * DigitsValue(SubSeq(s, 1, Len(s) - 1)) + DigitVal(s[Len(s)])

DotPos(s) ==
    IF \E i \in 1..Len(s) : s[i] = "."
    THEN CHOOSE i \in 1..Len(s) : s[i] = "." /\ \A j \in 1..(i - 1) : s[j] # "."
    ELSE Len(s) + 1

IntPart(s) == SubSeq(s, 1, DotPos(s) - 1)
FracPart(s) == SubSeq(s, DotPos(s) + 1, Len(s))

\* the strings float() accepts, among plain decimal literals
IsFloatLiteral(s) ==
    /\ \A i \in 1..Len(IntPart(s)) : IsDigit(IntPart(s)[i])
    /\ \A i \in 1..Len(FracPart(s)) : IsDigit(FracPart(s)[i])
    /\ Len(IntPart(s)) + Len(FracPart(s)) >= 1

\* ---- binary64 arithmetic: bit sequences and limb sequences are little-endian
SignificandBits == 53
LimbBits == 15
LimbBase == Pow(2, LimbBits)
PowersOfTwo == [k \in 0..30 |-> Pow(2, k)]

BitAt(x, i) == IF i >= 1 /\ i <= Len(x) THEN x[i] ELSE 0

RECURSIVE NatBits(_)
NatBits(n) == IF n = 0 THEN <<>> ELSE <<n % 2>> \o NatBits(n \div 2)

TopBit(x) == IF \E i \in 1..Len(x) : x[i] = 1
             THEN CHOOSE i \in 1..Len(x) : x[i] = 1 /\ \A j \in (i + 1)..Len(x) : x[j] = 0
             ELSE 0

TrimBits(x) == SubSeq(x, 1, TopBit(x))

\* x + 1: the trailing ones flip to zero and the first zero to one
BitsPlusOne(x) ==
    LET z == IF \E i \in 1..Len(x) : x[i] = 0
             THEN CHOOSE i \in 1..Len(x) : x[i] = 0 /\ \A j \in 1..(i - 1) : x[j] = 1
             ELSE Len(x) + 1
    IN  [i \in 1..(IF z > Len(x) THEN z ELSE Len(x)) |->
            IF i < z THEN 0 ELSE IF i = z THEN 1 ELSE x[i]]

RoundHalfEven(kept, roundBit, sticky) ==
    IF roundBit = 1 /\ (sticky \/ BitAt(kept, 1) = 1) THEN BitsPlusOne(kept) ELSE kept

\* the n binary digits of rem / den after the point (the first one last), and
\* the remainder left
RECURSIVE FracBits(_, _, _)
FracBits(rem, den, n) ==
    IF n = 0 THEN [bits |-> <<>>, rem |-> rem]
    ELSE IF n = 1 THEN [bits |-> <<(2 * rem) \div den>>, rem |-> (2 * rem) % den]
    ELSE CHOOSE r \in UNION {{[bits |-> lo.bits \o hi.bits, rem |-> lo.rem] :
                                 lo \in {FracBits(hi.rem, den, n - n \div 2)}} :
                             hi \in {FracBits(rem, den, n \div 2)}} : TRUE

\* the number of zeros that open the binary expansion of rem / den, 0 < rem < den
LeadingZeros(rem, den) ==
    CHOOSE nz \in 0..30 :
        /\ rem > (den - 1) \div PowersOfTwo[nz + 1]
        /\ \A pz \in 0..(nz - 1) : rem <= (den - 1) \div PowersOfTwo[pz + 1]

\* float(numer / den) for 0 <= numer, 0 < den: the nearest double (ties to even),
\* as m * 2^e
FloatOfRatio(numer, den) ==
    LET ip == numer \div den
        r0 == numer % den
        ib == NatBits(ip)
    IN  IF ip = 0 /\ r0 = 0 THEN [m |-> <<>>, e |-> 0]
        ELSE LET z    == IF ip = 0 THEN LeadingZeros(r0, den) ELSE 0
                 need == IF ip = 0 THEN SignificandBits + 1
                         ELSE SignificandBits + 1 - Len(ib)
                 fb   == FracBits(r0, den, z + need)
                 all  == SubSeq(fb.bits, 1, need) \o ib
             IN  [m |-> RoundHalfEven(SubSeq(all, 2, Len(all)), all[1], fb.rem # 0),
                  e |-> -(z + need - 1)]

RECURSIVE BitsValue(_, _, _)
BitsValue(x, lo, n) == IF n = 0 THEN 0 ELSE BitAt(x, lo) + 2 * BitsValue(x, lo + 1, n - 1)

LimbsOfBits(x) ==
    [i \in 1..((Len(x) + LimbBits - 1) \div LimbBits) |->
        BitsValue(x, LimbBits * (i - 1) + 1, LimbBits)]

BitsOfLimbs(x) ==
    TrimBits([j \in 1..(LimbBits * Len(x)) |->
        (x[(j - 1) \div LimbBits + 1] \div PowersOfTwo[(j - 1) % LimbBits]) % 2])

RECURSIVE LimbsTimes(_, _, _, _)
LimbsTimes(x, k, i, carry) ==
    IF i > Len(x) THEN (IF carry = 0 THEN <<>> ELSE <<carry>>)
    ELSE LET p == x[i] * k + carry
         IN  <<p % LimbBase>> \o LimbsTimes(x, k, i + 1, p \div LimbBase)

RECURSIVE LimbsTimesPow10(_, _)
LimbsTimesPow10(x, d) ==
    IF d = 0 THEN x
    ELSE IF d >= 3 THEN LimbsTimesPow10(LimbsTimes(x, 1000, 1, 0), d - 3)
    ELSE LimbsTimesPow10(LimbsTimes(x, 10, 1, 0), d - 1)

RoundToSignificand(x) ==
    IF Len(x) <= SignificandBits THEN [m |-> x, e |-> 0]
    ELSE LET t == Len(x) - SignificandBits
         IN  [m |-> RoundHalfEven(SubSeq(x, t + 1, Len(x)), x[t],
                                  \E i \in 1..(t - 1) : x[i] = 1),
              e |-> t]

\* float * 10^d: the exact product rounded to the nearest double
FloatTimesPow10(f, d) ==
    LET product == {BitsOfLimbs(y) : y \in {LimbsTimesPow10(LimbsOfBits(f.m), d)}}
    IN  CHOOSE r \in {[m |-> p.m, e |-> f.e + p.e] :
                      p \in {RoundToSignificand(y) : y \in product}} : TRUE

\* int(f) for f >= 0: truncation
IntOfFloat(f) ==
    IF f.m = <<>> THEN <<>>
    ELSE IF f.e >= 0 THEN [i \in 1..(f.e + Len(f.m)) |-> IF i <= f.e THEN 0 ELSE f.m[i - f.e]]
    ELSE IF 0 - f.e >= Len(f.m) THEN <<>>
    ELSE SubSeq(f.m, 1 - f.e, Len(f.m))

\* one long division of a limb sequence by ten, from the top limb down
RECURSIVE LimbsDivTen(_, _, _)
LimbsDivTen(x, i, rem) ==
    IF i = 0 THEN [q |-> <<>>, rem |-> rem]
    ELSE LET cur  == rem * LimbBase + x[i]
             rest == LimbsDivTen(x, i - 1, cur % 10)
         IN  [q |-> rest.q \o <<cur \div 10>>, rem |-> rest.rem]

RECURSIVE TrimLimbs(_)
TrimLimbs(x) ==
    IF x # <<>> /\ x[Len(x)] = 0 THEN TrimLimbs(SubSeq(x, 1, Len(x) - 1)) ELSE x

RECURSIVE DecimalDigits(_)
DecimalDigits(x) ==
    IF x = <<>> THEN <<>>
    ELSE LET dm == LimbsDivTen(x, Len(x), 0)
         IN  DecimalDigits(TrimLimbs(dm.q)) \o <<DigitChars[dm.rem + 1]>>

\* str(n) of a non-negative integer given in bits
StrOfInt(x) ==
    IF TrimBits(x) = <<>> THEN <<"0">> ELSE DecimalDigits(TrimLimbs(LimbsOfBits(TrimBits(x))))

\* str(int(float(amount_str) * (10 ** decimals)))
AmountInSmallest(amount_str, decimals) ==
    LET digits  == IntPart(amount_str) \o FracPart(amount_str)
        parsed  == {FloatOfRatio(numer, den) :
                       numer \in {DigitsValue(digits)},
                       den \in {Pow(10, Len(FracPart(amount_str)))}}
        scaled  == {FloatTimesPow10(v, decimals) : v \in parsed}
        whole   == {IntOfFloat(v) : v \in scaled}
    IN  CHOOSE r \in {StrOfInt(v) : v \in whole} : TRUE


\* int(a) > int(b) for two canonical decimal digit strings
RECURSIVE DigitsLess(_, _)
DigitsLess(a, b) ==
    IF a = <<>> THEN FALSE
    ELSE IF DigitVal(Head(a)) # DigitVal(Head(b)) THEN DigitVal(Head(a)) < DigitVal(Head(b))
    ELSE DigitsLess(Tail(a), Tail(b))

IntGreater(a, b) ==
    \/ Len(a) > Len(b)
    \/ Len(a) = Len(b) /\ DigitsLess(b, a)

\* ------------------------------------------------------------------------
\* Inputs
\* ------------------------------------------------------------------------
Users == {"0xu1", "0xu2"}

\* models.schemas.TokenType: the native token and the stable token
TokenTypes == {"SUI", "USDC"}
IsTokenType(t) == t \in TokenTypes

TokenInputs == {None, Some("SUI"), Some("USDC"), Some("BTC")}

AmountInputs ==
    { None,
      Some(<<"1", "0", "0">>),
      Some(<<"4", ".", "1">>),
      Some(<<"0", ".", "0", "0", "0", "0", "0", "1", "5">>),
      Some(<<"a", "b", "c">>) }

RecipientInputs == {None, Some("0xabc"), Some("Mom")}

StakedAmounts == { <<"0">>,
                   <<"1", "0", "0", "0", "0", "0", "0", "0", "0">>,
                   <<"4", "0", "9", "9", "9", "9", "9", "9", "9", "9">>,
                   <<"4", "1", "0", "0", "0", "0", "0", "0", "0", "0">>,
                   <<"1", "0", "0", "0", "0", "0", "0", "0", "0", "0", "0", "0">> }

Balances == {"0", "250000000000"}
GasFees == {"0.001"}
RiskLevels == {"low", "medium", "high"}

ContactKeyInputs == {None, Some(<<>>), Some(<<"M", "o", "m", " ", "C">>)}
ContactNameInputs == {None, Some("Mom")}
ContactAddressInputs == {None, Some(""), Some("0xabc")}

\* str.lower() and str.replace(" ", "_") on the characters the inputs use
LowerOf(c) == IF c = "M" THEN "m" ELSE IF c = "C" THEN "c" ELSE c
Lower(s) == [i \in 1..Len(s) |-> LowerOf(s[i])]
ReplaceSpaces(s) == [i \in 1..Len(s) |-> IF s[i] = " " THEN "_" ELSE s[i]]

\* ------------------------------------------------------------------------
\* State
\* ------------------------------------------------------------------------
VARIABLES
    chat,             \* the /chat request in flight: its inputs, locals and outcome
    address_book,     \* on chain: which users own an AddressBook object
    create_requests,  \* history: CREATE_ADDRESS_BOOK intents dispatched, per user
    exec,             \* the /execute request in flight
    saves,            \* the /contacts/save requests
    lists,            \* the /contacts/list requests
    contact_storage,  \* the process-wide mapping user_address -> blob_id
    walrus,           \* the blob store: the blobs uploaded, by blob id
    saved_log,        \* history: the records of the completed saves, per user
    health            \* the answers /health has given

vars == <<chat, address_book, create_requests, exec, saves, lists,
          contact_storage, walrus, saved_log, health>>

chat_vars == <<chat, address_book, create_requests>>
exec_vars == <<exec>>
contact_vars == <<saves, lists, contact_storage, walrus, saved_log>>

\* ------------------------------------------------------------------------
\* /chat
\* ------------------------------------------------------------------------
NoIntent ==
    [action |-> "", token |-> None, amount |-> None, recipient |-> None,
     is_contact_name |-> None, contact_key |-> None, contact_name |-> None,
     contact_address |-> None, clarification_question |-> None]

\* what openai_service.parse_intent may return
Intents ==
    {[NoIntent EXCEPT !.action = "AMBIGUOUS", !.clarification_question = q] :
        q \in {None, Some("Which token?")}}
    \cup {[NoIntent EXCEPT !.action = a, !.token = t] :
        a \in {"GET_BALANCE", "GET_STAKE_INFO"}, t \in TokenInputs}
    \cup {[NoIntent EXCEPT !.action = a, !.token = t, !.amount = m] :
        a \in {"STAKE_TOKEN", "UNSTAKE_TOKEN"}, t \in TokenInputs, m \in AmountInputs}
    \cup {[NoIntent EXCEPT !.action = "TRANSFER_TOKEN", !.token = t, !.amount = m,
                           !.recipient = r, !.is_contact_name = c] :
        t \in TokenInputs, m \in AmountInputs, r \in RecipientInputs,
        c \in {None, Some(FALSE), Some(TRUE)}}
    \cup {[NoIntent EXCEPT !.action = a] :
        a \in {"CREATE_ADDRESS_BOOK", "LIST_CONTACTS", "UNKNOWN"}}
    \cup {[NoIntent EXCEPT !.action = "SAVE_CONTACT", !.contact_key = k,
                           !.contact_name = n, !.contact_address = d] :
        k \in ContactKeyInputs, n \in ContactNameInputs, d \in ContactAddressInputs}

NoTransactionData ==
    [action |-> None, amount |-> None, token |-> None, recipient |-> None,
     transaction_type |-> None, target |-> None, arguments |-> None,
     type_arguments |-> None, contact_key |-> None, contact_name |-> None,
     private_key |-> None]

ChatIdle ==
    [pc |-> "idle", user_address |-> None, intent |-> NoIntent,
     stake_info |-> None, balance_info |-> None, amount_in_smallest |-> None,
     estimated_gas |-> None, address_book |-> None, calls |-> <<>>,
     failed_call |-> None, status |-> 0, error_text |-> None, response |-> None]

\* return ChatResponse(intent=..., dry_run=..., ready_to_execute=..., message=...,
\* transaction_data=...)
ChatResponse(c, dry_run, ready_to_execute, message, transaction_data) ==
    [c EXCEPT !.pc = "done", !.status = 200,
              !.response = Some([dry_run |-> dry_run,
                                 ready_to_execute |-> ready_to_execute,
                                 message |-> message,
                                 transaction_data |-> transaction_data])]

ChatRaiseAsInternal(c, status_code) == [c EXCEPT !.pc = "done", !.status = 500]

\* raise HTTPException(status_code=...), which the boundary re-raises unchanged
ChatRaise(c, status_code) == [c EXCEPT !.pc = "done", !.status = status_code]

\* any other exception: the boundary raises HTTPException(500) with str(e) in the detail
ChatInternalError(c, text) ==
    [c EXCEPT !.pc = "done", !.status = 500, !.error_text = Some(text)]

\* the text of the exception a failing service call raises
ServiceErrorText == "service unavailable"

\* await <call>: the request is suspended until the call returns
ChatAwait(c, call) == [c EXCEPT !.pc = call, !.calls = Append(@, call)]

\* a synchronous call of the gateway, made and returned within the step
ChatCalled(c, call) == [c EXCEPT !.calls = Append(@, call)]

\* an external call raises: the boundary answers 500 with the exception text
ChatCallFailed(c, call) ==
    [ChatInternalError(c, ServiceErrorText) EXCEPT !.failed_call = Some(call)]

\* a synchronous call of the gateway that raises
ChatCalledAndFailed(c, call) == ChatCallFailed(ChatCalled(c, call), call)

\* TokenType(parsed_data.get("token", "SUI")) raises ValueError outside the enum
TokenOf(intent) == Get(intent.token, "SUI")

StakeDecimals == 9
UnstakeDecimals == 9
SuiDecimals == 9
OtherDecimals == 6
\* decimals = 9 if token_type == TokenType.SUI else 6
TransferDecimals(token) == IF token = "SUI" THEN SuiDecimals ELSE OtherDecimals

DecimalsFor(action, token) ==
    IF action = "STAKE_TOKEN" THEN StakeDecimals
    ELSE IF action = "UNSTAKE_TOKEN" THEN UnstakeDecimals
    ELSE TransferDecimals(token)

\* the transaction_data dictionaries /chat builds
StakePayload(action, amount, token) ==
    [NoTransactionData EXCEPT !.action = Some(action), !.amount = Some(amount),
                              !.token = Some(token)]

TransferPayload(recipient, amount, token) ==
    [NoTransactionData EXCEPT !.action = Some("transfer_token"), !.recipient = recipient,
                              !.amount = Some(amount), !.token = Some(token)]

\* tx_result.get(...) of the metadata a build_*_tx call returned
MetadataPayload(action, tx_result) ==
    [NoTransactionData EXCEPT !.action = Some(action),
                              !.transaction_type = tx_result.transaction_type,
                              !.target = tx_result.target,
                              !.arguments = Some(Get(tx_result.arguments, <<>>)),
                              !.type_arguments = Some(Get(tx_result.type_arguments, <<>>))]

\* sui_service.build_create_address_book_tx / build_add_contact_tx: Move call metadata
MoveCallMetadata(function, arguments) ==
    [transaction_type |-> Some("move_call"), target |-> Some(function),
     arguments |-> Some(arguments), type_arguments |-> None]

\* the key the SAVE_CONTACT branch derives:
\* parsed_data.get("contact_key", "").lower().replace(" ", "_")
ContactKeyRaw(intent) == Get(intent.contact_key, <<>>)

ContactKeyOf(intent) == ReplaceSpaces(Lower(Get(intent.contact_key, <<>>)))

ReadyWhateverRisk(dry_run) == TRUE

\* ready_to_execute=True if dry_run.risk_level != "high" else False
ReadyUnlessHigh(dry_run) == IF dry_run.risk_level # "high" THEN TRUE ELSE FALSE

\* if int(amount_in_smallest) > int(stake_info.staked_amount)
InsufficientStake(amount_in_smallest, staked_amount) ==
    IntGreater(amount_in_smallest, staked_amount)

\* if not request.user_address: raise HTTPException(400)
MissingUserAddress(c) == Falsy(c.user_address)

\* what get_user_address_book returned, kept as the branch's local variable
Looked(c, book) ==
    [ChatCalled(c, "get_user_address_book") EXCEPT !.address_book = Some(book)]

DispatchTransferResolving(c, book, sync_fail) ==
    IF MissingUserAddress(c) THEN ChatRaise(c, 400)
    ELSE IF Get(c.intent.is_contact_name, FALSE) /\ sync_fail = "get_user_address_book"
    THEN ChatCalledAndFailed(c, "get_user_address_book")
    ELSE IF Get(c.intent.is_contact_name, FALSE) /\ ~book
    THEN ChatResponse(Looked(c, book), None, FALSE,
                      "contact not found: no address book", None)
    ELSE IF ~IsTokenType(TokenOf(c.intent)) THEN ChatInternalError(c, "not a valid TokenType")
    ELSE ChatAwait(IF Get(c.intent.is_contact_name, FALSE) THEN Looked(c, book) ELSE c,
                   "get_balance")

\* TRANSFER_TOKEN up to its first await.  book: what get_user_address_book finds;
\* sync_fail: the synchronous call that raises in this run, if any.
DispatchTransfer(c, book, sync_fail) ==
    IF MissingUserAddress(c) THEN ChatRaise(c, 400)
    ELSE IF Get(c.intent.is_contact_name, FALSE) THEN
        IF sync_fail = "get_user_address_book"
        THEN ChatCalledAndFailed(c, "get_user_address_book")
        ELSE IF ~book
        THEN ChatResponse(Looked(c, book), None, FALSE,
                          "contact not found: no address book", None)
        ELSE ChatResponse(Looked(c, book), None, FALSE,
                          "contact resolution is coming soon", None)
    ELSE IF ~IsTokenType(TokenOf(c.intent)) THEN ChatInternalError(c, "not a valid TokenType")
    ELSE ChatAwait(c, "get_balance")

CreateAddressBookUnchecked(c, book, sync_fail) ==
    IF MissingUserAddress(c) THEN ChatRaise(c, 400)
    ELSE ChatResponse(ChatCalled(Looked(c, book), "build_create_address_book_tx"),
                      None, TRUE, "ready to create your address book",
                      Some(MetadataPayload("create_address_book",
                               MoveCallMetadata("address_book::create", <<>>))))

\* CREATE_ADDRESS_BOOK, which awaits nothing
DispatchCreateAddressBook(c, book, sync_fail) ==
    IF MissingUserAddress(c) THEN ChatRaise(c, 400)
    ELSE IF sync_fail = "get_user_address_book"
    THEN ChatCalledAndFailed(c, "get_user_address_book")
    ELSE IF book
    THEN ChatResponse(Looked(c, book), None, FALSE, "you already have an address book", None)
    ELSE IF sync_fail = "build_create_address_book_tx"
    THEN ChatCalledAndFailed(Looked(c, book), "build_create_address_book_tx")
    ELSE ChatResponse(ChatCalled(Looked(c, book), "build_create_address_book_tx"),
                      None, TRUE, "ready to create your address book",
                      Some(MetadataPayload("create_address_book",
                               MoveCallMetadata("address_book::create", <<>>))))

\* SAVE_CONTACT up to `await seal_service.encrypt_contact(...)`
DispatchSaveContact(c, book, sync_fail) ==
    IF MissingUserAddress(c) THEN ChatRaise(c, 400)
    ELSE IF ContactKeyOf(c.intent) = <<>> \/ Get(c.intent.contact_address, "") = ""
    THEN ChatResponse(c, None, FALSE, "need a contact key and a wallet address", None)
    ELSE IF sync_fail = "get_user_address_book"
    THEN ChatCalledAndFailed(c, "get_user_address_book")
    ELSE IF ~book
    THEN ChatResponse(Looked(c, book), None, FALSE, "no address book yet", None)
    ELSE ChatAwait(Looked(c, book), "encrypt_contact")

ListContactsReadyWithBook(c, book, sync_fail) ==
    IF MissingUserAddress(c) THEN ChatRaise(c, 400)
    ELSE IF sync_fail = "get_user_address_book"
    THEN ChatCalledAndFailed(c, "get_user_address_book")
    ELSE ChatResponse(Looked(c, book), None, book, "address book is ready", None)

\* LIST_CONTACTS, which awaits nothing
DispatchListContacts(c, book, sync_fail) ==
    IF MissingUserAddress(c) THEN ChatRaise(c, 400)
    ELSE IF sync_fail = "get_user_address_book"
    THEN ChatCalledAndFailed(c, "get_user_address_book")
    ELSE IF ~book
    THEN ChatResponse(Looked(c, book), None, FALSE, "no address book yet", None)
    ELSE ChatResponse(Looked(c, book), None, FALSE, "address book is ready", None)

DispatchQueryUnchecked(c, first_call) ==
    IF ~IsTokenType(TokenOf(c.intent)) THEN ChatInternalError(c, "not a valid TokenType")
    ELSE ChatAwait(c, first_call)

\* GET_BALANCE, GET_STAKE_INFO, STAKE_TOKEN and UNSTAKE_TOKEN up to their first await
DispatchQuery(c, first_call) ==
    IF MissingUserAddress(c) THEN ChatRaise(c, 400)
    ELSE IF ~IsTokenType(TokenOf(c.intent)) THEN ChatInternalError(c, "not a valid TokenType")
    ELSE ChatAwait(c, first_call)

\* The code from the return of parse_intent to the next await or to the end.
AfterParseIntent(c, book, sync_fail) ==
    LET action == c.intent.action
    IN
    IF action = "AMBIGUOUS" THEN
        ChatResponse(c, None, FALSE,
                     IF Falsy(c.intent.clarification_question)
                     THEN "Could you provide more details?"
                     ELSE c.intent.clarification_question[1],
                     None)
    ELSE IF action \in {"GET_BALANCE", "STAKE_TOKEN"} THEN DispatchQuery(c, "get_balance")
    ELSE IF action \in {"GET_STAKE_INFO", "UNSTAKE_TOKEN"}
    THEN DispatchQuery(c, "get_user_stake")
    ELSE IF action = "TRANSFER_TOKEN" THEN DispatchTransfer(c, book, sync_fail)
    ELSE IF action = "CREATE_ADDRESS_BOOK" THEN DispatchCreateAddressBook(c, book, sync_fail)
    ELSE IF action = "SAVE_CONTACT" THEN DispatchSaveContact(c, book, sync_fail)
    ELSE IF action = "LIST_CONTACTS" THEN DispatchListContacts(c, book, sync_fail)
    ELSE ChatResponse(c, None, FALSE, "I didn't understand that", None)

\* The code from the return of get_user_stake on.
AfterGetUserStake(c, staked_amount) ==
    LET got == [c EXCEPT !.stake_info = Some(staked_amount)]
    IN  IF c.intent.action = "GET_STAKE_INFO"
        THEN ChatResponse(got, None, FALSE, "you have staked", None)
        ELSE ChatAwait(got, "get_balance")

\* The code from the return of get_balance on: the informational answer, or the
\* amount conversion and, for an unstake, the check against the stake.
AfterGetBalance(c, balance) ==
    LET intent     == c.intent
        action     == intent.action
        got        == [c EXCEPT !.balance_info = Some(balance)]
        amount_str == Get(intent.amount, <<"0">>)
        smallest   == AmountInSmallest(amount_str, DecimalsFor(action, TokenOf(intent)))
        converted  == [got EXCEPT !.amount_in_smallest = Some(smallest)]
    IN  IF action = "GET_BALANCE"
        THEN ChatResponse(got, None, FALSE, "your balance is", None)
        ELSE IF ~IsFloatLiteral(amount_str) THEN ChatInternalError(got, "could not convert string to float")
        ELSE IF action = "UNSTAKE_TOKEN" /\ InsufficientStake(smallest, c.stake_info[1])
        THEN ChatResponse(converted, None, FALSE, "insufficient staked amount", None)
        ELSE ChatAwait(converted, "estimate_gas_fee")

\* The code from the return of estimate_gas_fee on.
AfterEstimateGas(c, gas) ==
    ChatAwait([c EXCEPT !.estimated_gas = Some(gas)], "generate_dry_run_summary")

\* the parsed_data a flow hands to generate_dry_run_summary
DryRunRecipient(c) ==
    IF c.intent.action = "STAKE_TOKEN" THEN Some("Staking Pool")
    ELSE IF c.intent.action = "UNSTAKE_TOKEN" THEN c.user_address
    ELSE c.intent.recipient

\* openai_service.generate_dry_run_summary: the preview of the request it was handed,
\* with the risk level the classifier judged
DryRunSummary(c, risk_level) ==
    [recipient |-> DryRunRecipient(c), amount |-> c.amount_in_smallest[1],
     token |-> TokenOf(c.intent), sender_balance |-> c.balance_info[1],
     risk_level |-> risk_level, estimated_gas_fee |-> c.estimated_gas[1]]

AfterDryRunPayloadGated(c, dry_run) ==
    IF dry_run.risk_level = "high"
    THEN ChatResponse(c, Some(dry_run), FALSE, "blocked: high risk", None)
    ELSE ChatResponse(c, Some(dry_run), TRUE, "ready",
                      Some(IF c.intent.action = "TRANSFER_TOKEN"
                           THEN TransferPayload(c.intent.recipient,
                                                c.amount_in_smallest[1], TokenOf(c.intent))
                           ELSE StakePayload(IF c.intent.action = "STAKE_TOKEN"
                                             THEN "stake_token" ELSE "unstake_token",
                                             c.amount_in_smallest[1], TokenOf(c.intent))))

\* The code from the return of generate_dry_run_summary to the response.
AfterDryRun(c, dry_run) ==
    LET intent == c.intent
        amount == c.amount_in_smallest[1]
    IN  IF intent.action = "STAKE_TOKEN"
        THEN ChatResponse(c, Some(dry_run), ReadyUnlessHigh(dry_run), "ready to stake",
                          Some(StakePayload("stake_token", amount, TokenOf(intent))))
        ELSE IF intent.action = "UNSTAKE_TOKEN"
        THEN ChatResponse(c, Some(dry_run), TRUE, "ready to unstake",
                          Some(StakePayload("unstake_token", amount, TokenOf(intent))))
        ELSE ChatResponse(c, Some(dry_run), ReadyUnlessHigh(dry_run), "ready to transfer",
                          Some(TransferPayload(intent.recipient, amount, TokenOf(intent))))

AfterEncryptContactNoPayload(c, sync_fail) ==
    LET built == ChatCalled(c, "build_add_contact_tx")
    IN  IF sync_fail = "build_add_contact_tx"
        THEN ChatCallFailed(built, "build_add_contact_tx")
        ELSE ChatResponse(built, None, TRUE, "ready to save the contact", None)

\* The code from the return of seal_service.encrypt_contact to the response.
AfterEncryptContact(c, sync_fail) ==
    LET built == ChatCalled(c, "build_add_contact_tx")
        key   == ContactKeyOf(c.intent)
        name  == Get(c.intent.contact_name, "")
    IN  IF sync_fail = "build_add_contact_tx"
        THEN ChatCallFailed(built, "build_add_contact_tx")
        ELSE ChatResponse(built, None, TRUE, "ready to save the contact",
                 Some([MetadataPayload("save_contact",
                           MoveCallMetadata("address_book::add_contact", <<key>>))
                       EXCEPT !.contact_key = Some(key), !.contact_name = Some(name)]))

MaxCreateRequests == 2

ChatAwaited == {"parse_intent", "get_balance", "get_user_stake", "estimate_gas_fee",
                "generate_dry_run_summary", "encrypt_contact"}

\* POST /chat arrives: the handler runs to `await openai_service.parse_intent(...)`
ChatStart ==
    /\ chat.pc \in {"idle", "done"}
    /\ \E ua \in {None, Some("")} \cup {Some(u) : u \in Users} :
          chat' = ChatAwait([ChatIdle EXCEPT !.user_address = ua], "parse_intent")
    /\ UNCHANGED <<address_book, create_requests, exec_vars, contact_vars, health>>

\* parse_intent returns an Intent and the dispatch runs to its first await or its end
ChatParseIntentReturns ==
    /\ chat.pc = "parse_intent"
    /\ \E intent \in Intents,
          sync_fail \in {"none", "get_user_address_book", "build_create_address_book_tx"} :
          LET c       == [chat EXCEPT !.intent = intent]
              counted == intent.action = "CREATE_ADDRESS_BOOK" /\ ~MissingUserAddress(c)
          IN  /\ counted => create_requests[c.user_address[1]] < MaxCreateRequests
              /\ chat' = AfterParseIntent(c,
                            IF MissingUserAddress(c) THEN FALSE
                            ELSE address_book[c.user_address[1]],
                            sync_fail)
              /\ create_requests' =
                    IF counted
                    THEN [create_requests EXCEPT ![c.user_address[1]] = @ + 1]
                    ELSE create_requests
    /\ UNCHANGED <<address_book, exec_vars, contact_vars, health>>

ChatGetUserStakeReturns ==
    /\ chat.pc = "get_user_stake"
    /\ \E staked_amount \in StakedAmounts : chat' = AfterGetUserStake(chat, staked_amount)
    /\ UNCHANGED <<address_book, create_requests, exec_vars, contact_vars, health>>

ChatGetBalanceReturns ==
    /\ chat.pc = "get_balance"
    /\ \E balance \in Balances : chat' = AfterGetBalance(chat, balance)
    /\ UNCHANGED <<address_book, create_requests, exec_vars, contact_vars, health>>

ChatEstimateGasReturns ==
    /\ chat.pc = "estimate_gas_fee"
    /\ \E gas \in GasFees : chat' = AfterEstimateGas(chat, gas)
    /\ UNCHANGED <<address_book, create_requests, exec_vars, contact_vars, health>>

ChatDryRunReturns ==
    /\ chat.pc = "generate_dry_run_summary"
    /\ \E risk_level \in RiskLevels : chat' = AfterDryRun(chat, DryRunSummary(chat, risk_level))
    /\ UNCHANGED <<address_book, create_requests, exec_vars, contact_vars, health>>

ChatEncryptContactReturns ==
    /\ chat.pc = "encrypt_contact"
    /\ \E sync_fail \in {"none", "build_add_contact_tx"} :
          chat' = AfterEncryptContact(chat, sync_fail)
    /\ UNCHANGED <<address_book, create_requests, exec_vars, contact_vars, health>>

ChatCallRaisesRetrying ==
    /\ chat.pc \in ChatAwaited
    /\ chat' = IF Len(SelectSeq(chat.calls, LAMBDA call : call = chat.pc)) < 2
               THEN ChatAwait(chat, chat.pc)
               ELSE ChatCallFailed(chat, chat.pc)
    /\ UNCHANGED <<address_book, create_requests, exec_vars, contact_vars, health>>

\* the awaited call raises: except Exception -> HTTPException(500)
ChatCallRaises ==
    /\ chat.pc \in ChatAwaited
    /\ chat' = ChatCallFailed(chat, chat.pc)
    /\ UNCHANGED <<address_book, create_requests, exec_vars, contact_vars, health>>

\* outside the server: the user's wallet signs and submits a create-address-book
\* transaction, after which the AddressBook object exists on chain
AddressBookCreated ==
    /\ \E u \in Users : /\ ~address_book[u]
                        /\ address_book' = [address_book EXCEPT ![u] = TRUE]
    /\ UNCHANGED <<chat, create_requests, exec_vars, contact_vars, health>>

NextChat ==
    \/ ChatStart
    \/ ChatParseIntentReturns
    \/ ChatGetUserStakeReturns
    \/ ChatGetBalanceReturns
    \/ ChatEstimateGasReturns
    \/ ChatDryRunReturns
    \/ ChatEncryptContactReturns
    \/ ChatCallRaises
    \/ AddressBookCreated


\* ------------------------------------------------------------------------
\* /execute
\* ------------------------------------------------------------------------
ActionInputs == {None, Some("stake_token"), Some("unstake_token"), Some("transfer_token"),
                 Some("create_address_book")}
PayloadAmountInputs == {None, Some(<<>>), Some(<<"1", "0", "0", "0">>)}
PayloadRecipientInputs == {None, Some(""), Some("0xabc")}
PayloadTokenInputs == {None, Some("USDC"), Some("BTC")}
KeyInputs == {None, Some(""), Some("suiprivkey1qgood"), Some("not-a-key")}

\* the transaction_data dictionaries a client may post
Payloads ==
    {[NoTransactionData EXCEPT !.action = a, !.amount = m, !.token = t,
                               !.recipient = r, !.private_key = k] :
        a \in ActionInputs, m \in PayloadAmountInputs, t \in PayloadTokenInputs,
        r \in PayloadRecipientInputs, k \in KeyInputs}

\* WalletService(private_key) raises ValueError on a malformed key; get_address()
\* is the address of the imported keypair
KeyWellFormed(k) == k = "suiprivkey1qgood"
KeyErrorText == "Invalid private key format"

\* what an awaited call may raise: ValueError, or any other exception, with its text
Exceptions == { [type |-> "ValueError", text |-> "invalid transaction bytes"],
                [type |-> "Exception", text |-> "RPC unavailable"] }
KeyAddress(k) == "0xsigner"

\* the bytes a build_*_transaction call may return, and bytes.hex()
TxBytes == { <<0, 9>>, <<171, 205>> }
HexChars == <<"0", "1", "2", "3", "4", "5", "6", "7", "8", "9",
              "a", "b", "c", "d", "e", "f">>
Hex(bytes) ==
    [i \in 1..(2 * Len(bytes)) |->
        IF i % 2 = 1 THEN HexChars[(bytes[(i + 1) \div 2] \div 16) + 1]
        ELSE HexChars[(bytes[i \div 2] % 16) + 1]]

NoResult == [success |-> FALSE, transaction_digest |-> None, effects |-> None,
             error |-> None]

\* what wallet.execute_transaction / build_and_execute_transfer may return
WalletResults ==
    { [NoResult EXCEPT !.success = TRUE, !.transaction_digest = Some("9xDigest"),
                       !.effects = Some([status |-> "success",
                                         transaction_bytes |-> None])],
      [NoResult EXCEPT !.error = Some("InsufficientGas")] }

ExecIdle ==
    [pc |-> "idle", user_address |-> "", transaction_data |-> NoTransactionData,
     wallet |-> None, sender |-> None, tx_bytes |-> None, wallet_result |-> None,
     calls |-> <<>>, failed_call |-> None, status |-> 0, detail |-> "",
     error_text |-> None, result |-> None]

\* return <TransactionResult>
ExecReturn(e, result) == [e EXCEPT !.pc = "done", !.status = 200, !.result = Some(result)]

\* raise HTTPException(status_code=..., detail=...)
ExecRaise(e, status_code, detail) ==
    [e EXCEPT !.pc = "done", !.status = status_code, !.detail = detail]

ExecAwait(e, call) == [e EXCEPT !.pc = call, !.calls = Append(@, call)]
ExecCalled(e, call) == [e EXCEPT !.calls = Append(@, call)]

BuildCallOf(action) ==
    IF action = "stake_token" THEN "build_stake_transaction"
    ELSE IF action = "unstake_token" THEN "build_unstake_transaction"
    ELSE "build_transfer_transaction"

ExecBuildCalls == {"build_stake_transaction", "build_unstake_transaction",
                   "build_transfer_transaction"}
ExecWalletCalls == {"execute_transaction", "build_and_execute_transfer"}

ValidationErrorIfAbsent(tx_data) ==
    IF Get(tx_data.action, "") = "transfer_token" /\ IsNone(tx_data.recipient)
    THEN "Missing recipient address in transaction data"
    ELSE IF IsNone(tx_data.amount) THEN "Missing amount in transaction data"
    ELSE ""

\* if not amount / if not recipient: the 400 raised before either path
ValidationError(tx_data) ==
    IF Get(tx_data.action, "") = "transfer_token" /\ Falsy(tx_data.recipient)
    THEN "Missing recipient address in transaction data"
    ELSE IF FalsyChars(tx_data.amount) THEN "Missing amount in transaction data"
    ELSE ""

ServerSignedStartAsUser(e) ==
    LET tx_data == e.transaction_data
        action  == tx_data.action[1]
        key     == tx_data.private_key[1]
        made    == ExecCalled(e, "WalletService")
        signer  == [made EXCEPT !.wallet = Some(KeyAddress(key))]
    IN  IF ~KeyWellFormed(key)
        THEN [ExecRaise(made, 400, "Wallet error") EXCEPT !.failed_call = Some("WalletService"),
                                                          !.error_text = Some(KeyErrorText)]
        ELSE IF ~IsTokenType(Get(tx_data.token, "SUI"))
        THEN ExecRaise(signer, 400, "Wallet error")
        ELSE IF action = "transfer_token"
        THEN ExecAwait(signer, "build_and_execute_transfer")
        ELSE ExecAwait([signer EXCEPT !.sender = Some(e.user_address)], BuildCallOf(action))

\* if private_key: the server-signed path up to its first await
ServerSignedStart(e) ==
    LET tx_data == e.transaction_data
        action  == tx_data.action[1]
        key     == tx_data.private_key[1]
        made    == ExecCalled(e, "WalletService")
        signer  == [made EXCEPT !.wallet = Some(KeyAddress(key))]
    IN  IF ~KeyWellFormed(key)
        THEN [ExecRaise(made, 400, "Wallet error") EXCEPT !.failed_call = Some("WalletService"),
                                                          !.error_text = Some(KeyErrorText)]
        ELSE IF ~IsTokenType(Get(tx_data.token, "SUI"))
        THEN ExecRaise(signer, 400, "Wallet error")
        ELSE IF action = "transfer_token"
        THEN ExecAwait(signer, "build_and_execute_transfer")
        ELSE ExecAwait([signer EXCEPT !.sender = signer.wallet], BuildCallOf(action))

\* else: the client-signing path up to its await
ClientSigningStart(e) ==
    LET tx_data == e.transaction_data
    IN  IF ~IsTokenType(Get(tx_data.token, "SUI"))
        THEN ExecRaise(e, 400, "Failed to build transaction")
        ELSE ExecAwait([e EXCEPT !.sender = Some(e.user_address)],
                       BuildCallOf(tx_data.action[1]))

ExecDispatchUnsupportedAsInternal(e) ==
    LET tx_data == e.transaction_data
    IN  IF Get(tx_data.action, "") \notin {"stake_token", "unstake_token", "transfer_token"}
        THEN ExecRaise(e, 500, "Internal server error")
        ELSE IF ValidationError(tx_data) # ""
        THEN ExecRaise(e, 400, ValidationError(tx_data))
        ELSE IF ~Falsy(tx_data.private_key) THEN ServerSignedStart(e)
        ELSE ClientSigningStart(e)

\* The code of execute_transaction up to its first await or its end.
ExecDispatch(e) ==
    LET tx_data == e.transaction_data
    IN  IF Get(tx_data.action, "") \notin {"stake_token", "unstake_token", "transfer_token"}
        THEN ExecRaise(e, 400, "Unsupported action")
        ELSE IF ValidationError(tx_data) # ""
        THEN ExecRaise(e, 400, ValidationError(tx_data))
        ELSE IF ~Falsy(tx_data.private_key) THEN ServerSignedStart(e)
        ELSE ClientSigningStart(e)

AfterBuildAlwaysExecutes(e, tx_bytes) ==
    ExecAwait([e EXCEPT !.tx_bytes = Some(tx_bytes)], "execute_transaction")

\* The code from the return of a build_*_transaction call on.
AfterBuild(e, tx_bytes) ==
    LET built == [e EXCEPT !.tx_bytes = Some(tx_bytes)]
    IN
    IF ~IsNone(e.wallet)
    THEN ExecAwait(built, "execute_transaction")
    ELSE ExecReturn(built, [NoResult EXCEPT !.success = TRUE,
                            !.effects = Some([status |-> "ready_for_signing",
                                              transaction_bytes |-> Some(Hex(tx_bytes))])])

AfterWalletExecuteRetrying(e, result) ==
    IF result.success THEN ExecReturn([e EXCEPT !.wallet_result = Some(result)], result)
    ELSE IF Len(SelectSeq(e.calls, LAMBDA call : call = e.pc)) < 2 THEN ExecAwait(e, e.pc)
    ELSE [ExecRaise([e EXCEPT !.wallet_result = Some(result)], 500, "execution failed")
          EXCEPT !.failed_call = Some(e.pc), !.error_text = result.error]

\* The code from the return of the wallet's execution on: if result.success
AfterWalletExecute(e, result) ==
    LET got == [e EXCEPT !.wallet_result = Some(result)]
    IN  IF result.success THEN ExecReturn(got, result)
        ELSE [ExecRaise(got, 500, "execution failed") EXCEPT !.failed_call = Some(e.pc),
                                                             !.error_text = result.error]

\* An awaited call raises: ValueError is answered 400 by the inner handler, anything
\* else 500 by the outer one; the detail carries str(e).
AfterRaise(e, exception) ==
    [ExecRaise(e, IF exception.type = "ValueError" THEN 400 ELSE 500,
               IF exception.type # "ValueError" THEN "Internal server error"
               ELSE IF IsNone(e.wallet) THEN "Failed to build transaction"
               ELSE "Wallet error")
     EXCEPT !.failed_call = Some(e.pc), !.error_text = Some(exception.text)]

\* POST /execute arrives from one of `users` with one of `payloads`
ExecStartWith(users, payloads) ==
    /\ exec.pc \in {"idle", "done"}
    /\ \E u \in users, tx_data \in payloads :
          exec' = ExecDispatch([ExecIdle EXCEPT !.user_address = u,
                                                !.transaction_data = tx_data])
    /\ UNCHANGED <<chat_vars, contact_vars, health>>

ExecStart == ExecStartWith(Users, Payloads)

ExecBuildReturns ==
    /\ exec.pc \in ExecBuildCalls
    /\ \E tx_bytes \in TxBytes : exec' = AfterBuild(exec, tx_bytes)
    /\ UNCHANGED <<chat_vars, contact_vars, health>>

ExecWalletReturns ==
    /\ exec.pc \in ExecWalletCalls
    /\ \E result \in WalletResults : exec' = AfterWalletExecute(exec, result)
    /\ UNCHANGED <<chat_vars, contact_vars, health>>

ExecCallRaises ==
    /\ exec.pc \in ExecBuildCalls \cup ExecWalletCalls
    /\ \E exception \in Exceptions : exec' = AfterRaise(exec, exception)
    /\ UNCHANGED <<chat_vars, contact_vars, health>>

NextExec ==
    \/ ExecStart
    \/ ExecBuildReturns
    \/ ExecWalletReturns
    \/ ExecCallRaises

\* ------------------------------------------------------------------------
\* /contacts/save, /contacts/list, /health
\* ------------------------------------------------------------------------
MaxSaves == 2
MaxLists == 1
SaveIds == 1..MaxSaves
ListIds == 1..MaxLists

\* the bodies a client may post to /contacts/save (notes are optional)
SaveInputs ==
    { [contact_name |-> Some("Mom"), contact_address |-> Some("0xabc"), notes |-> None],
      [contact_name |-> Some("Bob"), contact_address |-> Some("0xdef"), notes |-> Some("work")],
      [contact_name |-> Some(""), contact_address |-> Some("0xabc"), notes |-> None],
      [contact_name |-> Some("Mom"), contact_address |-> Some(""), notes |-> None] }

\* seal_service: a blob encrypted under a user's address opens only under it
EncryptBulk(contacts, user_address) == [sealed_for |-> user_address, contacts |-> contacts]
CanDecrypt(blob, user_address) == blob.sealed_for = user_address
DecryptBulk(blob, user_address) == blob.contacts

\* walrus_service: content-addressed store, the blob id is the index of the content
BlobIdOf(store, blob) ==
    IF \E i \in 1..Len(store) : store[i] = blob
    THEN CHOOSE i \in 1..Len(store) : store[i] = blob
    ELSE Len(store) + 1
Uploaded(store, blob) ==
    IF BlobIdOf(store, blob) = Len(store) + 1 THEN Append(store, blob) ELSE store

\* contact_storage: Dict[str, str], user address -> blob id
Stored(storage, user_address, blob_id) ==
    [u \in (DOMAIN storage) \cup {user_address} |->
        IF u = user_address THEN blob_id ELSE storage[u]]
NoMapping == [u \in {} |-> 0]

\* the new contact dictionary of save_contact
NewContact(s) ==
    [name |-> s.contact_name[1], address |-> s.contact_address[1], notes |-> s.notes]

OnlyNewContact(existing_contacts, new_contact) == <<new_contact>>

\* existing_contacts.append(new_contact)
WithNewContact(existing_contacts, new_contact) == Append(existing_contacts, new_contact)

SaveIdle ==
    [pc |-> "idle", user_address |-> "", contact_name |-> None, contact_address |-> None,
     notes |-> None, blob_id |-> 0, encrypted_data |-> None, existing_contacts |-> <<>>,
     encrypted_blob |-> None, calls |-> <<>>, status |-> 0,
     failed_call |-> None, overlapped |-> FALSE]
ListIdle ==
    [pc |-> "idle", user_address |-> "", blob_id |-> 0, encrypted_data |-> None,
     contacts |-> <<>>, calls |-> <<>>, status |-> 0,
     failed_call |-> None, quiet |-> FALSE, saved_before |-> <<>>,
     mapped_before |-> None]

SaveAwaited == {"download_blob", "decrypt_bulk_contacts", "encrypt_bulk_contacts",
                "upload_blob"}
ListAwaited == {"download_blob", "decrypt_bulk_contacts"}

SaveInFlight(u) == {i \in SaveIds : saves[i].pc \in SaveAwaited /\ saves[i].user_address = u}

\* await <call> in save_contact or list_contacts
VaultAwait(r, call) == [r EXCEPT !.pc = call, !.calls = Append(@, call)]

\* raise HTTPException(400) inside the try block: `except Exception` answers 500
SaveFailed(s, call) == [s EXCEPT !.pc = "done", !.status = 500, !.failed_call = Some(call)]

\* The code of save_contact up to its first await or its end.
SaveDispatch(s) ==
    IF Falsy(s.contact_name) \/ Falsy(s.contact_address)
    THEN SaveFailed(s, "validation")
    ELSE IF s.user_address \in DOMAIN contact_storage
    THEN VaultAwait([s EXCEPT !.blob_id = contact_storage[s.user_address]], "download_blob")
    ELSE VaultAwait([s EXCEPT !.existing_contacts = <<NewContact(s)>>],
                    "encrypt_bulk_contacts")

SaveStart(i) ==
    /\ saves[i].pc = "idle"
    /\ \A k \in SaveIds : k < i => saves[k].pc # "idle"
    /\ \E u \in Users, body \in SaveInputs :
          saves' = [saves EXCEPT ![i] =
                      SaveDispatch([SaveIdle EXCEPT !.user_address = u,
                                       !.contact_name = body.contact_name,
                                       !.contact_address = body.contact_address,
                                       !.notes = body.notes,
                                       !.overlapped = SaveInFlight(u) # {}])]
    /\ UNCHANGED <<chat_vars, exec_vars, lists, contact_storage, walrus, saved_log, health>>

\* encrypted_data = await walrus_service.download_blob(blob_id)
SaveDownloadReturns(i) ==
    /\ saves[i].pc = "download_blob"
    /\ saves' = [saves EXCEPT ![i] =
                    VaultAwait([saves[i] EXCEPT !.encrypted_data = Some(walrus[saves[i].blob_id])],
                               "decrypt_bulk_contacts")]
    /\ UNCHANGED <<chat_vars, exec_vars, lists, contact_storage, walrus, saved_log, health>>

\* existing_contacts = await decrypt_bulk_contacts(...); append; contacts_for_encryption
SaveDecryptReturns(i) ==
    /\ saves[i].pc = "decrypt_bulk_contacts"
    /\ LET s == saves[i]
           encrypted_data == s.encrypted_data[1]
       IN  saves' = [saves EXCEPT ![i] =
                IF CanDecrypt(encrypted_data, s.user_address)
                THEN VaultAwait([s EXCEPT !.existing_contacts =
                                    WithNewContact(DecryptBulk(encrypted_data, s.user_address),
                                                   NewContact(s))],
                                "encrypt_bulk_contacts")
                ELSE SaveFailed(s, "decrypt_bulk_contacts")]
    /\ UNCHANGED <<chat_vars, exec_vars, lists, contact_storage, walrus, saved_log, health>>

\* encrypted_blob = await encrypt_bulk_contacts(...)
SaveEncryptReturns(i) ==
    /\ saves[i].pc = "encrypt_bulk_contacts"
    /\ saves' = [saves EXCEPT ![i] =
                    VaultAwait([saves[i] EXCEPT !.encrypted_blob =
                                    Some(EncryptBulk(saves[i].existing_contacts,
                                                     saves[i].user_address))],
                               "upload_blob")]
    /\ UNCHANGED <<chat_vars, exec_vars, lists, contact_storage, walrus, saved_log, health>>

SaveUploadReturnsDeletingOld(i) ==
    /\ saves[i].pc = "upload_blob"
    /\ LET s == saves[i]
           encrypted_blob == s.encrypted_blob[1]
           kept == IF s.user_address \in DOMAIN contact_storage
                   THEN [walrus EXCEPT ![contact_storage[s.user_address]] =
                             [sealed_for |-> "", contacts |-> <<>>]]
                   ELSE walrus
       IN  /\ walrus' = Uploaded(kept, encrypted_blob)
           /\ contact_storage' = Stored(contact_storage, s.user_address,
                                        BlobIdOf(kept, encrypted_blob))
           /\ saves' = [saves EXCEPT ![i] = [s EXCEPT !.pc = "done", !.status = 200,
                                   !.blob_id = BlobIdOf(kept, encrypted_blob)]]
           /\ saved_log' = [saved_log EXCEPT ![s.user_address] = Append(@, NewContact(s))]
    /\ UNCHANGED <<chat_vars, exec_vars, lists, health>>

\* blob_id = await upload_blob(encrypted_blob); contact_storage[user] = blob_id; return
SaveUploadReturns(i) ==
    /\ saves[i].pc = "upload_blob"
    /\ LET s == saves[i]
           encrypted_blob == s.encrypted_blob[1]
       IN  /\ walrus' = Uploaded(walrus, encrypted_blob)
           /\ contact_storage' = Stored(contact_storage, s.user_address,
                                        BlobIdOf(walrus, encrypted_blob))
           /\ saves' = [saves EXCEPT ![i] = [s EXCEPT !.pc = "done", !.status = 200,
                                   !.blob_id = BlobIdOf(walrus, encrypted_blob)]]
           /\ saved_log' = [saved_log EXCEPT ![s.user_address] = Append(@, NewContact(s))]
    /\ UNCHANGED <<chat_vars, exec_vars, lists, health>>

SaveCallRaisesAfterStoring(i) ==
    /\ saves[i].pc \in SaveAwaited
    /\ saves' = [saves EXCEPT ![i] = SaveFailed(saves[i], saves[i].pc)]
    /\ contact_storage' = Stored(contact_storage, saves[i].user_address, Len(walrus) + 1)
    /\ UNCHANGED <<chat_vars, exec_vars, lists, walrus, saved_log, health>>

\* an awaited collaborator call raises: except Exception answers 500
SaveCallRaises(i) ==
    /\ saves[i].pc \in SaveAwaited
    /\ saves' = [saves EXCEPT ![i] = SaveFailed(saves[i], saves[i].pc)]
    /\ UNCHANGED <<chat_vars, exec_vars, lists, contact_storage, walrus, saved_log, health>>

ListDispatchMissingIsError(l) ==
    IF l.user_address \notin DOMAIN contact_storage
    THEN [l EXCEPT !.pc = "done", !.status = 500]
    ELSE VaultAwait([l EXCEPT !.blob_id = contact_storage[l.user_address]], "download_blob")

\* The code of list_contacts up to its first await or its end.
ListDispatch(l) ==
    IF l.user_address \notin DOMAIN contact_storage
    THEN [l EXCEPT !.pc = "done", !.status = 200, !.contacts = <<>>]
    ELSE VaultAwait([l EXCEPT !.blob_id = contact_storage[l.user_address]], "download_blob")

ListStart(j) ==
    /\ lists[j].pc = "idle"
    /\ \A k \in ListIds : k < j => lists[k].pc # "idle"
    /\ \E u \in Users :
          lists' = [lists EXCEPT ![j] =
                      ListDispatch([ListIdle EXCEPT !.user_address = u,
                          !.quiet = (SaveInFlight(u) = {} /\
                                     \A i \in SaveIds : saves[i].user_address = u
                                                          => ~saves[i].overlapped),
                          !.saved_before = saved_log[u],
                          !.mapped_before = IF u \in DOMAIN contact_storage
                                            THEN Some(contact_storage[u]) ELSE None])]
    /\ UNCHANGED <<chat_vars, exec_vars, saves, contact_storage, walrus, saved_log, health>>

ListDownloadReturns(j) ==
    /\ lists[j].pc = "download_blob"
    /\ lists' = [lists EXCEPT ![j] =
                    VaultAwait([lists[j] EXCEPT !.encrypted_data = Some(walrus[lists[j].blob_id])],
                               "decrypt_bulk_contacts")]
    /\ UNCHANGED <<chat_vars, exec_vars, saves, contact_storage, walrus, saved_log, health>>

ListDecryptReturns(j) ==
    /\ lists[j].pc = "decrypt_bulk_contacts"
    /\ LET l == lists[j]
           encrypted_data == l.encrypted_data[1]
       IN  lists' = [lists EXCEPT ![j] =
                IF CanDecrypt(encrypted_data, l.user_address)
                THEN [l EXCEPT !.pc = "done", !.status = 200,
                               !.contacts = DecryptBulk(encrypted_data, l.user_address)]
                ELSE [l EXCEPT !.pc = "done", !.status = 500,
                               !.failed_call = Some("decrypt_bulk_contacts")]]
    /\ UNCHANGED <<chat_vars, exec_vars, saves, contact_storage, walrus, saved_log, health>>

ListCallRaises(j) ==
    /\ lists[j].pc \in ListAwaited
    /\ lists' = [lists EXCEPT ![j] = [lists[j] EXCEPT !.pc = "done", !.status = 500,
                                         !.failed_call = Some(lists[j].pc)]]
    /\ UNCHANGED <<chat_vars, exec_vars, saves, contact_storage, walrus, saved_log, health>>

HealthResponse == [status |-> "healthy", service |-> "Sui Blockchain AI Agent",
                   version |-> "1.0.0-mvp"]

HealthCheckResetting ==
    /\ health' = Some(HealthResponse)
    /\ contact_storage' = NoMapping
    /\ UNCHANGED <<chat_vars, exec_vars, saves, lists, walrus, saved_log>>

HealthCheck ==
    /\ health' = Some(HealthResponse)
    /\ UNCHANGED <<chat_vars, exec_vars, contact_vars>>

NextContacts ==
    \/ \E i \in SaveIds : SaveStart(i)
    \/ \E i \in SaveIds : SaveDownloadReturns(i)
    \/ \E i \in SaveIds : SaveDecryptReturns(i)
    \/ \E i \in SaveIds : SaveEncryptReturns(i)
    \/ \E i \in SaveIds : SaveUploadReturns(i)
    \/ \E i \in SaveIds : SaveCallRaises(i)
    \/ \E j \in ListIds : ListStart(j)
    \/ \E j \in ListIds : ListDownloadReturns(j)
    \/ \E j \in ListIds : ListDecryptReturns(j)
    \/ \E j \in ListIds : ListCallRaises(j)

Init ==
    /\ chat = ChatIdle
    /\ address_book = [u \in Users |-> FALSE]
    /\ create_requests = [u \in Users |-> 0]
    /\ exec = ExecIdle
    /\ saves = [i \in SaveIds |-> SaveIdle]
    /\ lists = [j \in ListIds |-> ListIdle]
    /\ contact_storage = NoMapping
    /\ walrus = <<>>
    /\ saved_log = [u \in Users |-> <<>>]
    /\ health = None

SpecChat == Init /\ [][NextChat]_vars
SpecExec == Init /\ [][NextExec]_vars
SpecContacts == Init /\ [][NextContacts]_vars

Next ==
    \/ NextChat
    \/ NextExec
    \/ NextContacts
    \/ HealthCheck

Spec == Init /\ [][Next]_vars

\* ------------------------------------------------------------------------
\* /chat, then /execute with the payload /chat returned
\* ------------------------------------------------------------------------
\* the private_key a client may add to the payload before posting it
SubmittedKeys == {None, Some("suiprivkey1qgood")}

\* POST /execute with request.transaction_data = the transaction_data of the last
\* ChatResponse, as it is or with a private_key added
ExecSubmitsChatPayload ==
    /\ exec.pc \in {"idle", "done"}
    /\ chat.pc = "done" /\ chat.status = 200
    /\ chat.response[1].transaction_data # None
    /\ \E key \in SubmittedKeys :
          exec' = ExecDispatch([ExecIdle EXCEPT
                      !.user_address = chat.user_address[1],
                      !.transaction_data =
                          [chat.response[1].transaction_data[1] EXCEPT !.private_key = key]])
    /\ UNCHANGED <<chat_vars, contact_vars, health>>

\* one conversation: /chat requests until a payload is submitted, then /execute
NextFlow ==
    \/ exec.pc = "idle" /\ NextChat
    \/ ExecSubmitsChatPayload
    \/ ExecBuildReturns
    \/ ExecWalletReturns
    \/ ExecCallRaises

SpecFlow == Init /\ [][NextFlow]_vars

\* ------------------------------------------------------------------------
\* The four handlers and /health side by side
\* ------------------------------------------------------------------------
MaxRequests == 2

\* the requests received so far, one per handler slot in use
Served ==
    (IF chat.pc = "idle" THEN 0 ELSE 1) + (IF exec.pc = "idle" THEN 0 ELSE 1)
    + Cardinality({i \in SaveIds : saves[i].pc # "idle"})
    + Cardinality({j \in ListIds : lists[j].pc # "idle"})
    + (IF health = None THEN 0 ELSE 1)

\* the intents of the side-by-side runs: one value per field
ServerIntents ==
    {intent \in Intents :
        /\ intent.token = None /\ intent.is_contact_name = None
        /\ intent.clarification_question = None /\ intent.contact_name = None
        /\ intent.amount = None
        /\ intent.recipient \in {None, Some("0xabc")}
        /\ intent.contact_key \in {None, Some(<<"M", "o", "m", " ", "C">>)}
        /\ intent.contact_address \in {None, Some("0xabc")}}

\* a run of the server in which at most MaxRequests requests arrive, each handled
\* once, with /chat and /execute posted by user 0xu1 with the inputs above
NextServer ==
    \/ /\ Served < MaxRequests /\ chat.pc = "idle"
       /\ ChatStart /\ chat'.user_address \in {None, Some("0xu1")}
    \/ ChatParseIntentReturns /\ chat'.intent \in ServerIntents
    \/ ChatGetUserStakeReturns
    \/ ChatGetBalanceReturns
    \/ ChatEstimateGasReturns
    \/ ChatDryRunReturns
    \/ ChatEncryptContactReturns
    \/ ChatCallRaises
    \/ AddressBookCreated /\ address_book'["0xu1"]
    \/ /\ Served < MaxRequests /\ exec.pc = "idle"
       /\ ExecStartWith({"0xu1"},
                         {tx_data \in Payloads :
                             /\ tx_data.token = None
                             /\ tx_data.amount = Some(<<"1", "0", "0", "0">>)
                             /\ tx_data.recipient = Some("0xabc")
                             /\ tx_data.private_key \in SubmittedKeys})
    \/ ExecBuildReturns
    \/ ExecWalletReturns
    \/ ExecCallRaises
    \/ \E i \in SaveIds : Served < MaxRequests /\ SaveStart(i)
    \/ \E i \in SaveIds : SaveDownloadReturns(i)
    \/ \E i \in SaveIds : SaveDecryptReturns(i)
    \/ \E i \in SaveIds : SaveEncryptReturns(i)
    \/ \E i \in SaveIds : SaveUploadReturns(i)
    \/ \E i \in SaveIds : SaveCallRaises(i)
    \/ \E j \in ListIds : Served < MaxRequests /\ ListStart(j)
    \/ \E j \in ListIds : ListDownloadReturns(j)
    \/ \E j \in ListIds : ListDecryptReturns(j)
    \/ \E j \in ListIds : ListCallRaises(j)
    \/ Served < MaxRequests /\ health = None /\ HealthCheck

SpecServer == Init /\ [][NextServer]_vars

\* the pending external call of a request returns or raises and the handler resumes
ChatCallEnds ==
    \/ ChatParseIntentReturns /\ chat'.intent \in ServerIntents
    \/ ChatGetUserStakeReturns
    \/ ChatGetBalanceReturns
    \/ ChatEstimateGasReturns
    \/ ChatDryRunReturns
    \/ ChatEncryptContactReturns
    \/ ChatCallRaises
ExecCallEnds == ExecBuildReturns \/ ExecWalletReturns \/ ExecCallRaises
SaveCallEnds(i) ==
    \/ SaveDownloadReturns(i) \/ SaveDecryptReturns(i) \/ SaveEncryptReturns(i)
    \/ SaveUploadReturns(i) \/ SaveCallRaises(i)
ListCallEnds(j) == ListDownloadReturns(j) \/ ListDecryptReturns(j) \/ ListCallRaises(j)

\* every external call eventually returns, with a result or a failure, and the event
\* loop then resumes the coroutine that awaits it
SpecServerFair ==
    /\ SpecServer
    /\ WF_vars(ChatCallEnds)
    /\ WF_vars(ExecCallEnds)
    /\ \A i \in SaveIds : WF_vars(SaveCallEnds(i))
    /\ \A j \in ListIds : WF_vars(ListCallEnds(j))

\* ------------------------------------------------------------------------
\* Properties of /chat
\* ------------------------------------------------------------------------
ChatDone == chat.pc = "done"
ChatCalls == {chat.calls[i] : i \in 1..Len(chat.calls)}
ChatAction == chat.intent.action
ChatAmountStr == Get(chat.intent.amount, <<"0">>)

\* a request whose inputs convert and whose external calls all returned
ChatInputsValid ==
    /\ ~MissingUserAddress(chat)
    /\ IsTokenType(TokenOf(chat.intent))
    /\ IsFloatLiteral(ChatAmountStr)
    /\ chat.failed_call = None

DirectTransfer == ChatAction = "TRANSFER_TOKEN" /\ ~Get(chat.intent.is_contact_name, FALSE)

\* the decimal amount in smallest units, exactly: the digits of the amount with the
\* point moved d places, digits beyond d dropped
RECURSIVE StripLeadingZeros(_)
StripLeadingZeros(s) ==
    IF Len(s) > 1 /\ s[1] = "0" THEN StripLeadingZeros(Tail(s)) ELSE s

ExactSmallest(amount_str, d) ==
    LET padded == FracPart(amount_str) \o [i \in 1..d |-> "0"]
    IN  StripLeadingZeros(IntPart(amount_str) \o SubSeq(padded, 1, d))

\* the exponent configured for a token: 9 for SUI, 6 for USDC
TokenExponent(token) == IF token = "SUI" THEN 9 ELSE 6

RequestedSmallest == ExactSmallest(ChatAmountStr, TokenExponent(TokenOf(chat.intent)))

\* C1: a stake, or a transfer to a direct address, with user_address given and every
\* external call returning, is answered with a dry run and ready_to_execute = true
\* exactly when the dry run's risk_level is not "high".
C1_RiskGate ==
    (ChatDone /\ ChatInputsValid /\ (ChatAction = "STAKE_TOKEN" \/ DirectTransfer))
        => /\ chat.status = 200
           /\ chat.response[1].dry_run # None
           /\ chat.response[1].ready_to_execute
                  <=> (chat.response[1].dry_run[1].risk_level # "high")

C1_HighRiskTransferBlocked ==
    /\ ChatDone /\ ChatInputsValid /\ DirectTransfer
    /\ chat.intent.recipient = Some("0xabc")
    /\ chat.intent.amount = Some(<<"1", "0", "0">>)
    /\ chat.estimated_gas # None
    /\ chat.response[1].dry_run[1].risk_level = "high"
    /\ ~chat.response[1].ready_to_execute

\* C2: an unstake whose requested amount, in smallest units, is strictly greater than
\* the staked amount is answered normally with ready_to_execute = false, no dry run and
\* no transaction_data, and neither a gas estimate nor a dry-run build is issued.
C2_ExcessUnstakeRefused ==
    (/\ ChatDone /\ ChatInputsValid /\ ChatAction = "UNSTAKE_TOKEN"
     /\ chat.stake_info # None /\ chat.balance_info # None
     /\ IntGreater(RequestedSmallest, chat.stake_info[1]))
        => /\ chat.status = 200
           /\ ~chat.response[1].ready_to_execute
           /\ chat.response[1].dry_run = None
           /\ chat.response[1].transaction_data = None
           /\ ChatCalls \cap {"estimate_gas_fee", "generate_dry_run_summary"} = {}

\* the responses that, by the claim, carry a payload
PayloadExpected ==
    \/ ChatAction = "STAKE_TOKEN"
    \/ /\ ChatAction = "UNSTAKE_TOKEN"
       /\ ~IntGreater(chat.amount_in_smallest[1], chat.stake_info[1])
    \/ DirectTransfer
    \/ ChatAction = "CREATE_ADDRESS_BOOK" /\ chat.address_book = Some(FALSE)
    \/ /\ ChatAction = "SAVE_CONTACT"
       /\ ContactKeyOf(chat.intent) # <<>>
       /\ Get(chat.intent.contact_address, "") # ""
       /\ chat.address_book = Some(TRUE)

\* C5: a ChatResponse carries transaction_data exactly for a stake, an unstake that
\* passed the amount check, a transfer to a direct address, a newly built
\* create-address-book and a save-contact with valid fields and an existing book.
C5_PayloadIffFollowUp ==
    (ChatDone /\ chat.status = 200)
        => (chat.response[1].transaction_data # None <=> PayloadExpected)

C5_HighRiskStakeCarriesPayload ==
    /\ ChatDone /\ chat.status = 200 /\ ChatAction = "STAKE_TOKEN"
    /\ chat.response[1].dry_run[1].risk_level = "high"
    /\ ~chat.response[1].ready_to_execute
    /\ chat.response[1].transaction_data # None
    /\ chat.response[1].transaction_data[1].action = Some("stake_token")

ChatUser == chat.user_address[1]

\* C6 as stated: the second CREATE_ADDRESS_BOOK call of a user returns
\* ready_to_execute = false, no transaction_data, and issues no build request.
C6_SecondCreateRefused ==
    (/\ ChatDone /\ chat.status = 200 /\ ChatAction = "CREATE_ADDRESS_BOOK"
     /\ create_requests[ChatUser] >= 2)
        => /\ ~chat.response[1].ready_to_execute
           /\ chat.response[1].transaction_data = None
           /\ "build_create_address_book_tx" \notin ChatCalls

\* C6 amended: a CREATE_ADDRESS_BOOK call short-circuits (ready_to_execute = false, no
\* transaction_data, no build request) exactly when its existence check reports a
\* book on chain; when it reports none, a second call included, the handler builds
\* once more and returns ready_to_execute = true with a create_address_book payload.
C6_ShortCircuitIffBookExists ==
    (/\ ChatDone /\ ChatAction = "CREATE_ADDRESS_BOOK"
     /\ ~MissingUserAddress(chat) /\ chat.failed_call = None)
        => /\ chat.status = 200
           /\ chat.address_book # None
           /\ IF chat.address_book[1]
              THEN /\ ~chat.response[1].ready_to_execute
                   /\ chat.response[1].transaction_data = None
                   /\ "build_create_address_book_tx" \notin ChatCalls
              ELSE /\ chat.response[1].ready_to_execute
                   /\ chat.response[1].transaction_data # None
                   /\ chat.response[1].transaction_data[1].action
                          = Some("create_address_book")
                   /\ chat.calls = <<"parse_intent", "get_user_address_book",
                                     "build_create_address_book_tx">>

C6_SecondCreateFindsBook ==
    /\ ChatDone /\ chat.status = 200 /\ ChatAction = "CREATE_ADDRESS_BOOK"
    /\ create_requests[ChatUser] = 2
    /\ chat.address_book = Some(TRUE)
    /\ ~chat.response[1].ready_to_execute
    /\ chat.response[1].transaction_data = None

\* C7: an unstake whose requested amount is less than or equal to the staked amount is
\* answered with ready_to_execute = true, a dry run and an unstake_token payload,
\* whatever the dry run's risk_level.
C7_UnstakeReadyWhateverRisk ==
    (/\ ChatDone /\ ChatInputsValid /\ ChatAction = "UNSTAKE_TOKEN"
     /\ chat.stake_info # None /\ chat.balance_info # None
     /\ ~IntGreater(RequestedSmallest, chat.stake_info[1]))
        => /\ chat.status = 200
           /\ chat.response[1].ready_to_execute
           /\ chat.response[1].dry_run # None
           /\ chat.response[1].transaction_data # None
           /\ chat.response[1].transaction_data[1].action = Some("unstake_token")

\* ------------------------------------------------------------------------
\* Properties of /execute
\* ------------------------------------------------------------------------
ExecDone == exec.pc = "done"
ExecAction == Get(exec.transaction_data.action, "")
ExecSupported == ExecAction \in {"stake_token", "unstake_token", "transfer_token"}
ExecKeyGiven == ~Falsy(exec.transaction_data.private_key)
ExecFieldsMissing ==
    \/ FalsyChars(exec.transaction_data.amount)
    \/ ExecAction = "transfer_token" /\ Falsy(exec.transaction_data.recipient)
ExecStarted == exec.pc # "idle"

\* the bytes a lower-case hexadecimal string encodes
HexDigitValue(c) == (CHOOSE i \in 1..16 : HexChars[i] = c) - 1
IsHexOf(h, bytes) ==
    /\ Len(h) = 2 * Len(bytes)
    /\ \A i \in 1..Len(h) : \E k \in 1..16 : HexChars[k] = h[i]
    /\ \A i \in 1..Len(bytes) :
          16 * HexDigitValue(h[2 * i - 1]) + HexDigitValue(h[2 * i]) = bytes[i]

\* C8: /execute of a supported payload with its required fields and no private key
\* only builds: no signer is constructed and nothing is signed or submitted at any
\* point of the request, and when the build returns the answer is success = true with
\* effects.status = "ready_for_signing" and the hex encoding of the built bytes.
C8_ClientSigningBuildsOnly ==
    (ExecStarted /\ ExecSupported /\ ~ExecFieldsMissing /\ ~ExecKeyGiven)
        => /\ exec.wallet = None
           /\ \A i \in 1..Len(exec.calls) : exec.calls[i] = BuildCallOf(ExecAction)
           /\ Len(exec.calls) <= 1
           /\ (ExecDone /\ exec.failed_call = None
               /\ IsTokenType(Get(exec.transaction_data.token, "SUI")))
                 => /\ exec.status = 200
                    /\ exec.calls = <<BuildCallOf(ExecAction)>>
                    /\ exec.result[1].success
                    /\ exec.result[1].effects[1].status = "ready_for_signing"
                    /\ exec.result[1].effects[1].transaction_bytes # None
                    /\ IsHexOf(exec.result[1].effects[1].transaction_bytes[1],
                               exec.tx_bytes[1])

C8_TransferReadyForSigning ==
    /\ ExecDone /\ exec.status = 200 /\ ExecAction = "transfer_token"
    /\ ~ExecKeyGiven
    /\ exec.tx_bytes = Some(<<171, 205>>)
    /\ exec.result[1].effects[1].transaction_bytes = Some(<<"a", "b", "c", "d">>)

\* the calls the claim expects of a server-signed request, in order
GatewayThenSign == <<"WalletService", BuildCallOf(ExecAction), "execute_transaction">>

\* the calls the server-signed transfer makes
WalletTransfer == <<"WalletService", "build_and_execute_transfer">>

IsPrefix(s, t) == Len(s) <= Len(t) /\ SubSeq(t, 1, Len(s)) = s

\* C9 as stated: with a private key, each of the three actions constructs a signer,
\* builds through the gateway, then signs and submits, and returns the signer's result.
C9_ServerSignedBuildsViaGateway ==
    (ExecDone /\ ExecSupported /\ ExecKeyGiven /\ exec.status = 200)
        => /\ exec.calls = GatewayThenSign
           /\ exec.result = exec.wallet_result

\* C9 amended: with a private key, stake and unstake construct a signer, build through
\* the gateway and then sign and submit; a transfer constructs a signer and hands
\* building and execution to the signer in one call, with no gateway build.  Each step
\* happens at most once, a success returns the signer's result unchanged, a failed
\* execution ends the request with an error without retry, and a request with a key
\* never returns a ready_for_signing result.
C9_ServerSignedPath ==
    (ExecStarted /\ ExecSupported /\ ~ExecFieldsMissing /\ ExecKeyGiven)
        => /\ IsPrefix(exec.calls, IF ExecAction = "transfer_token"
                                   THEN WalletTransfer ELSE GatewayThenSign)
           /\ exec.calls # <<>>
           /\ (ExecDone /\ exec.status = 200)
                 => /\ exec.calls = (IF ExecAction = "transfer_token"
                                     THEN WalletTransfer ELSE GatewayThenSign)
                    /\ exec.wallet_result \in {Some(r) : r \in WalletResults}
                    /\ exec.wallet_result[1].success
                    /\ exec.result = exec.wallet_result
           /\ (ExecDone /\ exec.wallet_result # None /\ ~exec.wallet_result[1].success)
                 => /\ exec.status = 500
                    /\ exec.result = None

C9_TransferSignedWithoutGatewayBuild ==
    /\ ExecDone /\ exec.status = 200 /\ ExecAction = "transfer_token" /\ ExecKeyGiven
    /\ exec.calls = WalletTransfer
    /\ exec.result[1].transaction_digest = Some("9xDigest")

\* C10: a supported payload with a missing or empty amount, or a transfer with a
\* missing or empty recipient, is rejected with status 400 before any build call and
\* before a signer is constructed, with or without a private key.
C10_ValidatedBeforeEitherPath ==
    (ExecStarted /\ ExecSupported /\ ExecFieldsMissing)
        => /\ ExecDone
           /\ exec.status = 400
           /\ exec.calls = <<>>
           /\ exec.wallet = None
           /\ exec.result = None

C10_EmptyRecipientWithKeyRejected ==
    /\ ExecDone /\ ExecAction = "transfer_token" /\ ExecKeyGiven
    /\ exec.transaction_data.recipient = Some("")
    /\ exec.transaction_data.amount = Some(<<"1", "0", "0", "0">>)
    /\ exec.status = 400
    /\ exec.calls = <<>>

\* ------------------------------------------------------------------------
\* Properties of the contact vault
\* ------------------------------------------------------------------------
\* the records of the blob the mapping points to
StoredContacts(u) ==
    IF u \in DOMAIN contact_storage
    THEN DecryptBulk(walrus[contact_storage[u]], u)
    ELSE <<>>

SavesCompleted(u) ==
    {i \in SaveIds : saves[i].pc = "done" /\ saves[i].status = 200
                     /\ saves[i].user_address = u}

\* C3: once every /contacts/save of a user has completed, the mapped blob holds one
\* record per successfully completed save, whether or not the saves overlapped in time.
C3_NoSaveLost ==
    \A u \in Users :
        SaveInFlight(u) = {}
            => /\ Len(StoredContacts(u)) = Cardinality(SavesCompleted(u))
               /\ StoredContacts(u) = saved_log[u]

\* C4: a /contacts/list that follows n successful saves of the user, none of which
\* overlapped another save of that user, returns exactly the n saved records in save
\* order, a record saved twice appearing twice.
C4_ListReturnsEverySave ==
    \A j \in ListIds :
        (lists[j].pc = "done" /\ lists[j].quiet /\ lists[j].failed_call = None)
            => /\ lists[j].status = 200
               /\ lists[j].contacts = lists[j].saved_before

C4_SameContactListedTwice ==
    \E j \in ListIds :
        /\ lists[j].pc = "done" /\ lists[j].status = 200 /\ lists[j].quiet
        /\ Len(lists[j].contacts) = 2
        /\ lists[j].contacts[1] = lists[j].contacts[2]
        /\ lists[j].contacts[1].name = "Mom"
        /\ Cardinality(SavesCompleted(lists[j].user_address)) = 2

\* C11: a payload whose action is not stake_token, unstake_token or transfer_token,
\* a missing action included, is rejected with status 400 and the "unsupported
\* action" detail, with no gateway call and no signer, with or without a private key.
C11_UnsupportedActionRejected ==
    (ExecStarted /\ ~ExecSupported)
        => /\ ExecDone
           /\ exec.status = 400
           /\ exec.detail = "Unsupported action"
           /\ exec.calls = <<>>
           /\ exec.wallet = None
           /\ exec.result = None

C11_MissingActionWithKeyRejected ==
    /\ ExecDone
    /\ exec.transaction_data.action = None
    /\ exec.transaction_data.private_key = Some("suiprivkey1qgood")
    /\ exec.transaction_data.amount = Some(<<"1", "0", "0", "0">>)
    /\ exec.status = 400
    /\ exec.calls = <<>>

\* C12: on the server-signed path a malformed key is answered 400, and a failed signing
\* or submission, whether the signer reports success = false or its call raises, is
\* answered 500 with the collaborator's error text, never 400 and never a success.
C12_StatusFollowsFailureKind ==
    (ExecDone /\ ExecSupported /\ ~ExecFieldsMissing /\ ExecKeyGiven)
        => /\ exec.failed_call = Some("WalletService") => exec.status = 400
           /\ (exec.failed_call # None /\ exec.failed_call[1] \in ExecWalletCalls)
                 => /\ exec.status = 500
                    /\ exec.result = None
                    /\ exec.error_text # None
                    /\ exec.wallet_result # None
                          => exec.error_text = exec.wallet_result[1].error

\* C13: a /contacts/save with a missing or empty contact_name or contact_address is
\* answered with status 400 and makes no download, encryption or upload call.
C13_InvalidSaveAnswered400 ==
    \A i \in SaveIds :
        (saves[i].pc # "idle"
         /\ (Falsy(saves[i].contact_name) \/ Falsy(saves[i].contact_address)))
            => /\ saves[i].pc = "done"
               /\ saves[i].status = 400
               /\ saves[i].calls = <<>>

AddressActions == {"GET_BALANCE", "GET_STAKE_INFO", "STAKE_TOKEN", "UNSTAKE_TOKEN",
                   "TRANSFER_TOKEN", "CREATE_ADDRESS_BOOK", "SAVE_CONTACT", "LIST_CONTACTS"}

\* C14: a /chat request without user_address (absent or empty) whose intent is one of
\* the eight address-dependent actions is rejected with status 400 with no call made
\* after the classification; an AMBIGUOUS or unrecognized intent is answered normally.
C14_AddressRequired ==
    /\ (ChatAction \in AddressActions /\ Falsy(chat.user_address))
          => /\ ChatDone
             /\ chat.status = 400
             /\ chat.response = None
             /\ chat.calls = <<"parse_intent">>
    /\ (ChatAction \in {"AMBIGUOUS", "UNKNOWN"} /\ Falsy(chat.user_address))
          => /\ ChatDone
             /\ chat.status = 200
             /\ chat.response # None
             /\ chat.calls = <<"parse_intent">>

C14_SaveContactWithoutAddressRejected ==
    /\ ChatDone /\ ChatAction = "SAVE_CONTACT"
    /\ chat.user_address = Some("")
    /\ chat.intent.contact_address = Some("0xabc")
    /\ chat.status = 400
    /\ chat.calls = <<"parse_intent">>

\* C15: every /chat request ends in exactly one of three outcomes: a ChatResponse
\* (status 200); a 400, exactly when an address-dependent action lacks user_address;
\* or a 500 carrying the exception text, which every failing service call produces.
C15_ThreeOutcomes ==
    ChatDone
        => /\ chat.status \in {200, 400, 500}
           /\ chat.response # None <=> chat.status = 200
           /\ chat.status = 400 <=> (ChatAction \in AddressActions /\ Falsy(chat.user_address))
           /\ chat.error_text # None <=> chat.status = 500
           /\ chat.failed_call # None
                 => /\ chat.status = 500
                    /\ chat.error_text = Some(ServiceErrorText)

C15_DryRunFailureIs500 ==
    /\ ChatDone /\ chat.status = 500 /\ chat.response = None
    /\ chat.failed_call = Some("generate_dry_run_summary")
    /\ chat.error_text = Some(ServiceErrorText)

\* C16: a /contacts/list for a user with no entry in the mapping returns an empty
\* collection as a normal result without a download or decrypt call; otherwise it
\* downloads the mapped blob, decrypts it and returns all of its records.
C16_ListOfMapping ==
    \A j \in ListIds :
        lists[j].pc # "idle"
            => /\ lists[j].mapped_before = None
                     => /\ lists[j].pc = "done"
                        /\ lists[j].status = 200
                        /\ lists[j].contacts = <<>>
                        /\ lists[j].calls = <<>>
               /\ (lists[j].mapped_before # None /\ lists[j].pc = "done"
                   /\ lists[j].failed_call = None)
                     => /\ lists[j].status = 200
                        /\ lists[j].calls = <<"download_blob", "decrypt_bulk_contacts">>
                        /\ lists[j].contacts = walrus[lists[j].mapped_before[1]].contacts

C16_MappedBlobListed ==
    /\ lists[1].pc = "done" /\ lists[1].status = 200
    /\ lists[1].mapped_before # None
    /\ Len(lists[1].contacts) = 2
    /\ lists[1].contacts[1].name # lists[1].contacts[2].name

\* C17: a transfer to a direct address whose dry run is not high risk is answered with
\* ready_to_execute = true and transaction_data = {action: "transfer_token", recipient:
\* the parsed recipient, amount: the decimal amount times 10^d as an integer string,
\* token: the parsed token}; 100 SUI gives the amount "100000000000".
C17_TransferPayload ==
    (/\ ChatDone /\ ChatInputsValid /\ DirectTransfer /\ chat.status = 200
     /\ chat.response[1].dry_run[1].risk_level # "high")
        => /\ chat.response[1].ready_to_execute
           /\ chat.response[1].transaction_data # None
           /\ chat.response[1].transaction_data[1] =
                 [NoTransactionData EXCEPT
                     !.action = Some("transfer_token"),
                     !.recipient = chat.intent.recipient,
                     !.amount = Some(RequestedSmallest),
                     !.token = Some(TokenOf(chat.intent))]

\* the handler's conversion carried out with the exponent configured for the token
ConvertedForToken == AmountInSmallest(ChatAmountStr, TokenExponent(TokenOf(chat.intent)))

\* C18: in the stake, unstake and transfer flows the amount is converted with the
\* exponent of the intent's token, 9 for SUI and 6 for USDC, and that amount is the one
\* placed in the dry run and in transaction_data.
C18_ExponentOfToken ==
    (ChatAction \in {"STAKE_TOKEN", "UNSTAKE_TOKEN", "TRANSFER_TOKEN"}
     /\ chat.amount_in_smallest # None)
        => /\ chat.amount_in_smallest[1] = ConvertedForToken
           /\ (ChatDone /\ chat.status = 200 /\ chat.response[1].dry_run # None)
                 => /\ chat.response[1].dry_run[1].amount = ConvertedForToken
                    /\ chat.response[1].transaction_data[1].amount = Some(ConvertedForToken)

\* a smallest-unit string read back as a decimal with d fractional digits
FromSmallest(smallest, d) ==
    LET padded == IF Len(smallest) > d THEN smallest
                  ELSE [i \in 1..(d + 1 - Len(smallest)) |-> "0"] \o smallest
    IN  [int  |-> SubSeq(padded, 1, Len(padded) - d),
         frac |-> SubSeq(padded, Len(padded) - d + 1, Len(padded))]

\* a decimal amount string cut to d fractional digits
TruncatedTo(amount_str, d) ==
    [int  |-> StripLeadingZeros(IntPart(amount_str)),
     frac |-> SubSeq(FracPart(amount_str) \o [i \in 1..d |-> "0"], 1, d)]

\* C19: for a token with exponent d, the amount converted to smallest units and read
\* back is the decimal amount cut to d fractional digits: exact for at most d
\* fractional digits, digits beyond d dropped without rounding.
C19_RoundTripWithinPrecision ==
    (ChatAction = "TRANSFER_TOKEN" /\ chat.amount_in_smallest # None)
        => FromSmallest(chat.amount_in_smallest[1], TokenExponent(TokenOf(chat.intent)))
              = TruncatedTo(ChatAmountStr, TokenExponent(TokenOf(chat.intent)))

\* a save-contact request that stops before encryption: a field is empty or the
\* look-up found no address book
SaveContactStopped ==
    \/ Get(chat.intent.contact_key, <<>>) = <<>>
    \/ Get(chat.intent.contact_address, "") = ""
    \/ chat.address_book = Some(FALSE)

\* C20: a SAVE_CONTACT with user_address given and an empty contact_key or
\* contact_address, or no address book, gets a ChatResponse with ready_to_execute =
\* false and no transaction_data, and neither encrypt_contact nor build_add_contact_tx
\* is called; otherwise both are called and the response is ready_to_execute = true
\* with a save_contact payload carrying the contact_key, lower-cased with spaces
\* replaced by underscores, and the contact_name.
C20_SaveContactGate ==
    (ChatAction = "SAVE_CONTACT" /\ ~MissingUserAddress(chat))
        => /\ SaveContactStopped
                 => ChatCalls \cap {"encrypt_contact", "build_add_contact_tx"} = {}
           /\ (ChatDone /\ chat.failed_call = None)
                 => /\ chat.status = 200
                    /\ IF SaveContactStopped
                       THEN /\ ~chat.response[1].ready_to_execute
                            /\ chat.response[1].transaction_data = None
                       ELSE /\ {"encrypt_contact", "build_add_contact_tx"} \subseteq ChatCalls
                            /\ chat.response[1].ready_to_execute
                            /\ chat.response[1].transaction_data # None
                            /\ chat.response[1].transaction_data[1].action
                                  = Some("save_contact")
                            /\ chat.response[1].transaction_data[1].contact_key
                                  = Some(ReplaceSpaces(Lower(chat.intent.contact_key[1])))
                            /\ chat.response[1].transaction_data[1].contact_name
                                  = Some(Get(chat.intent.contact_name, ""))

C20_ContactSavedUnderNormalisedKey ==
    /\ ChatDone /\ ChatAction = "SAVE_CONTACT" /\ chat.status = 200
    /\ chat.intent.contact_key = Some(<<"M", "o", "m", " ", "C">>)
    /\ chat.intent.contact_name = Some("Mom")
    /\ chat.response[1].ready_to_execute
    /\ chat.response[1].transaction_data[1].contact_key
          = Some(<<"m", "o", "m", "_", "c">>)
    /\ chat.response[1].transaction_data[1].contact_name = Some("Mom")
    /\ chat.calls = <<"parse_intent", "get_user_address_book", "encrypt_contact",
                      "build_add_contact_tx">>

\* ------------------------------------------------------------------------
\* Properties of the failure paths and of the requests taken together
\* ------------------------------------------------------------------------
\* a save that failed at one of its awaited calls
SaveFailedAtCall(s) ==
    s.pc = "done" /\ s.failed_call # None /\ s.failed_call[1] \in SaveAwaited

\* every mapped blob id names a blob the store holds
MappedBlobsUploaded ==
    \A u \in DOMAIN contact_storage : contact_storage[u] \in 1..Len(walrus)

\* the step in which save i stores the id its upload returned
SaveStores(i) ==
    /\ saves[i].pc = "upload_blob" /\ saves'[i].pc = "done" /\ saves'[i].status = 200
    /\ saves'[i].blob_id \in 1..Len(walrus')
    /\ walrus'[saves'[i].blob_id] = saves[i].encrypted_blob[1]
    /\ contact_storage' = Stored(contact_storage, saves[i].user_address, saves'[i].blob_id)

\* C21: a /contacts/save that fails at download, decryption, encryption or upload is
\* answered 500 and its failing step leaves the user -> blob mapping as it was; the
\* mapping is written only in the step where an upload returns its blob id, so every
\* mapped id names a completely uploaded blob.
C21_FailedSaveKeepsMapping ==
    /\ [](\A i \in SaveIds : SaveFailedAtCall(saves[i]) => saves[i].status = 500)
    /\ []MappedBlobsUploaded
    /\ [][ /\ \A i \in SaveIds :
                 (~SaveFailedAtCall(saves[i]) /\ SaveFailedAtCall(saves'[i]))
                     => contact_storage' = contact_storage
           /\ contact_storage' # contact_storage => \E i \in SaveIds : SaveStores(i) ]_vars

C21_UploadFailedAfterEarlierSave ==
    /\ saves[1].pc = "done" /\ saves[1].status = 200
    /\ saves[2].pc = "done" /\ saves[2].status = 500
    /\ saves[2].failed_call = Some("upload_blob")
    /\ saves[2].user_address = saves[1].user_address
    /\ contact_storage[saves[1].user_address] = saves[1].blob_id

\* the intents that only inform
Informational == {"AMBIGUOUS", "GET_BALANCE", "GET_STAKE_INFO", "LIST_CONTACTS", "UNKNOWN"}

\* C22: for AMBIGUOUS, GET_BALANCE, GET_STAKE_INFO, LIST_CONTACTS and unrecognized
\* actions every ChatResponse has ready_to_execute = false, no dry_run and no
\* transaction_data, whatever the queries return; AMBIGUOUS and unrecognized actions
\* call nothing after parse_intent.
C22_InformationalNeverReady ==
    /\ (ChatDone /\ chat.status = 200 /\ ChatAction \in Informational)
          => /\ ~chat.response[1].ready_to_execute
             /\ chat.response[1].dry_run = None
             /\ chat.response[1].transaction_data = None
    /\ (chat.pc # "idle" /\ ChatAction \in {"AMBIGUOUS", "UNKNOWN"})
          => /\ chat.calls = <<"parse_intent">>
             /\ ChatDone /\ chat.status = 200

C22_ListContactsWithBookNotReady ==
    /\ ChatDone /\ ChatAction = "LIST_CONTACTS" /\ chat.status = 200
    /\ chat.address_book = Some(TRUE)
    /\ ~chat.response[1].ready_to_execute
    /\ chat.calls = <<"parse_intent", "get_user_address_book">>

\* a transfer whose recipient the classifier flagged as a contact name
ContactTransfer ==
    /\ chat.pc # "idle" /\ ChatAction = "TRANSFER_TOKEN"
    /\ Get(chat.intent.is_contact_name, FALSE)

ChatBlockedByRisk ==
    /\ ChatDone /\ chat.status = 200
    /\ ChatAction \in {"STAKE_TOKEN", "TRANSFER_TOKEN"}
    /\ chat.response[1].dry_run # None
    /\ chat.response[1].dry_run[1].risk_level = "high"
    /\ ~chat.response[1].ready_to_execute

\* C24: a stake or transfer that /chat answered with ready_to_execute = false because
\* the dry run's risk_level was high is not signed and submitted by the server in the
\* /execute that follows.
C24_HighRiskNeverSigned ==
    ChatBlockedByRisk
        => {exec.calls[i] : i \in 1..Len(exec.calls)} \cap ExecWalletCalls = {}

\* the payload of the last ChatResponse was posted to /execute as it was
SubmittedUnchanged ==
    /\ ExecStarted /\ chat.response # None /\ chat.response[1].transaction_data # None
    /\ exec.transaction_data = chat.response[1].transaction_data[1]

\* C25: a transaction_data payload that /chat returned with ready_to_execute = true
\* and that is posted to /execute unchanged is not answered 400, neither as an
\* unsupported action nor for a missing required field.
C25_ReadyPayloadAccepted ==
    (SubmittedUnchanged /\ chat.response[1].ready_to_execute /\ ExecDone)
        => ~(exec.status = 400 /\ (~ExecSupported \/ ExecFieldsMissing))

\* ------------------------------------------------------------------------
\* Properties of /execute: the sender
\* ------------------------------------------------------------------------
\* a build_*_transaction call of the gateway was made
ExecBuilt == \E i \in 1..Len(exec.calls) : exec.calls[i] \in ExecBuildCalls

\* C30: the sender of the transaction /execute builds is fixed by the path: on the
\* client-signing path it is request.user_address, on the server-signed stake and
\* unstake paths it is the address derived from the private key, whatever
\* request.user_address says.
C30_SenderFixedByPath ==
    ExecBuilt
        => IF ExecKeyGiven
           THEN /\ ExecAction \in {"stake_token", "unstake_token"}
                /\ exec.sender = Some(KeyAddress(exec.transaction_data.private_key[1]))
           ELSE exec.sender = Some(exec.user_address)

C30_StakeSignedForKeyAddress ==
    /\ ExecDone /\ exec.status = 200 /\ ExecAction = "stake_token"
    /\ ExecKeyGiven /\ ExecBuilt
    /\ exec.user_address = "0xu1"
    /\ exec.sender = Some("0xsigner")
    /\ exec.sender # Some(exec.user_address)

\* ------------------------------------------------------------------------
\* Shape of every ChatResponse
\* ------------------------------------------------------------------------
\* C28: in every ChatResponse ready_to_execute = true implies transaction_data is
\* present; a dry_run comes only with a transaction_data whose action is stake_token,
\* unstake_token or transfer_token; create_address_book and save_contact payloads
\* never come with a dry run.
C28_ResponseShape ==
    (ChatDone /\ chat.status = 200)
        => LET response == chat.response[1]
           IN  /\ response.ready_to_execute => response.transaction_data # None
               /\ response.dry_run # None
                     => /\ response.transaction_data # None
                        /\ response.transaction_data[1].action \in
                              {Some("stake_token"), Some("unstake_token"),
                               Some("transfer_token")}
               /\ (/\ response.transaction_data # None
                   /\ response.transaction_data[1].action \in
                         {Some("create_address_book"), Some("save_contact")})
                     => response.dry_run = None

C28_ReadySaveContactWithoutDryRun ==
    /\ ChatDone /\ chat.status = 200 /\ ChatAction = "SAVE_CONTACT"
    /\ chat.response[1].ready_to_execute
    /\ chat.response[1].transaction_data # None
    /\ chat.response[1].transaction_data[1].action = Some("save_contact")
    /\ chat.response[1].dry_run = None
    /\ chat.intent.contact_name = None

\* ------------------------------------------------------------------------
\* /contacts/list overlapping /contacts/save
\* ------------------------------------------------------------------------
\* the complete record sets the saves of user u have stored so far
StoredSets(u) ==
    {saves[i].existing_contacts :
        i \in {k \in SaveIds : /\ saves[k].user_address = u /\ saves[k].pc = "done"
                               /\ saves[k].status = 200}}

\* C26: a /contacts/list that overlaps a /contacts/save of the same user returns the
\* record set from before that save or the one after it, never an error and never a
\* partial set: the list reads the blob that was mapped when it started, a save maps
\* its new blob in one step after the upload, and no blob is deleted or rewritten.
C26_ListSeesWholeSet ==
    /\ [](\A j \in ListIds :
            /\ lists[j].pc \in ListAwaited
                  => /\ lists[j].mapped_before = Some(lists[j].blob_id)
                     /\ lists[j].blob_id \in 1..Len(walrus)
                     /\ CanDecrypt(walrus[lists[j].blob_id], lists[j].user_address)
            /\ (lists[j].pc = "done" /\ lists[j].failed_call = None)
                  => /\ lists[j].status = 200
                     /\ lists[j].contacts =
                           IF lists[j].mapped_before = None THEN <<>>
                           ELSE walrus[lists[j].mapped_before[1]].contacts
                     /\ lists[j].contacts \in {<<>>} \cup StoredSets(lists[j].user_address))
    /\ [][IsPrefix(walrus, walrus')]_vars

C26_ListDuringSaveSeesEarlierSet ==
    /\ lists[1].pc = "done" /\ lists[1].status = 200 /\ ~lists[1].quiet
    /\ saves[1].pc = "done" /\ saves[1].status = 200 /\ ~saves[1].overlapped
    /\ saves[2].pc = "done" /\ saves[2].status = 200 /\ ~saves[2].overlapped
    /\ saves[1].user_address = lists[1].user_address
    /\ saves[2].user_address = lists[1].user_address
    /\ lists[1].mapped_before = Some(saves[1].blob_id)
    /\ lists[1].contacts = saves[1].existing_contacts
    /\ Len(saves[2].existing_contacts) = 2
    /\ contact_storage[lists[1].user_address] = saves[2].blob_id

\* ------------------------------------------------------------------------
\* Who writes contact_storage
\* ------------------------------------------------------------------------
\* the step in which save i completes and overwrites its own user's entry only
SaveOverwritesOwnEntry(i) ==
    LET u == saves[i].user_address
    IN  /\ saves[i].pc = "upload_blob"
        /\ saves'[i].pc = "done" /\ saves'[i].status = 200
        /\ DOMAIN contact_storage' = DOMAIN contact_storage \cup {u}
        /\ contact_storage'[u] = saves'[i].blob_id
        /\ \A v \in DOMAIN contact_storage \ {u} :
              /\ contact_storage'[v] = contact_storage[v]
              /\ walrus'[contact_storage'[v]] = walrus[contact_storage[v]]

\* C27: contact_storage is changed only by a /contacts/save that succeeds, and only at
\* the entry of that request's user_address, which gets the new blob id; steps of
\* /chat, /execute, /contacts/list and /health and every failing save leave the whole
\* mapping unchanged, and a save of one user leaves the other users' entries and
\* listings as they were.
C27_OnlySuccessfulSaveWrites ==
    [][ /\ contact_storage' # contact_storage
              => \E i \in SaveIds : SaveOverwritesOwnEntry(i)
        /\ (\/ chat' # chat \/ exec' # exec \/ lists' # lists \/ health' # health
            \/ address_book' # address_book)
              => contact_storage' = contact_storage
        /\ \A i \in SaveIds :
              (saves'[i] # saves[i] /\ saves'[i].status # 200)
                  => contact_storage' = contact_storage ]_vars

C27_EachUserOwnEntry ==
    /\ saves[1].pc = "done" /\ saves[1].status = 200 /\ saves[1].user_address = "0xu1"
    /\ saves[2].pc = "done" /\ saves[2].status = 200 /\ saves[2].user_address = "0xu2"
    /\ DOMAIN contact_storage = {"0xu1", "0xu2"}
    /\ contact_storage["0xu1"] = saves[1].blob_id
    /\ contact_storage["0xu2"] = saves[2].blob_id
    /\ walrus[contact_storage["0xu1"]].contacts = <<NewContact(saves[1])>>

\* ------------------------------------------------------------------------
\* Completion of the requests
\* ------------------------------------------------------------------------
\* the calls of a request are all different and the pending one is the last made
OneAtATime(r, awaited) ==
    /\ \A m, n \in 1..Len(r.calls) : r.calls[m] = r.calls[n] => m = n
    /\ r.pc \in awaited => r.calls # <<>> /\ r.calls[Len(r.calls)] = r.pc

\* a finished request has one outcome: its result, or an error status
OneOutcome ==
    /\ ChatDone => \/ chat.status = 200 /\ chat.response # None
                   \/ chat.status \in {400, 500} /\ chat.response = None
    /\ ExecDone => \/ exec.status = 200 /\ exec.result # None
                   \/ exec.status \in {400, 500} /\ exec.result = None
    /\ \A i \in SaveIds : saves[i].pc = "done" => saves[i].status \in {200, 500}
    /\ \A j \in ListIds : lists[j].pc = "done" => lists[j].status \in {200, 500}

\* a request that awaits a call moves only when that call ends, and a finished request
\* is never answered again
MovesOnlyWhenCallEnds ==
    /\ chat' # chat => chat.pc # "done" /\ (chat.pc \in ChatAwaited => ChatCallEnds)
    /\ exec' # exec
          => exec.pc # "done" /\ (exec.pc \in ExecBuildCalls \cup ExecWalletCalls => ExecCallEnds)
    /\ \A i \in SaveIds :
          saves'[i] # saves[i]
             => saves[i].pc # "done" /\ (saves[i].pc \in SaveAwaited => SaveCallEnds(i))
    /\ \A j \in ListIds :
          lists'[j] # lists[j]
             => lists[j].pc # "done" /\ (lists[j].pc \in ListAwaited => ListCallEnds(j))

\* C29: if every external call eventually returns, with a result or a failure, every
\* /chat, /execute, /contacts/save and /contacts/list request eventually completes with
\* exactly one response or error, making its external calls one at a time, none
\* twice; a request whose call has not returned does not move, as nothing times out
\* or cancels it.
C29_RequestsComplete ==
    /\ (chat.pc \in ChatAwaited) ~> ChatDone
    /\ (exec.pc \in ExecBuildCalls \cup ExecWalletCalls) ~> ExecDone
    /\ \A i \in SaveIds : (saves[i].pc \in SaveAwaited) ~> (saves[i].pc = "done")
    /\ \A j \in ListIds : (lists[j].pc \in ListAwaited) ~> (lists[j].pc = "done")
    /\ [](/\ OneOutcome
          /\ OneAtATime(chat, ChatAwaited)
          /\ OneAtATime(exec, ExecBuildCalls \cup ExecWalletCalls)
          /\ \A i \in SaveIds : OneAtATime(saves[i], SaveAwaited)
          /\ \A j \in ListIds : OneAtATime(lists[j], ListAwaited))
    /\ [][MovesOnlyWhenCallEnds]_vars

C29_StakeAskedAndSigned ==
    /\ ChatDone /\ chat.status = 200
    /\ chat.calls = <<"parse_intent", "get_balance", "estimate_gas_fee",
                      "generate_dry_run_summary">>
    /\ ExecDone /\ exec.status = 200
    /\ exec.calls = <<"WalletService", "build_stake_transaction", "execute_transaction">>
====
